---- MODULE Spec2Model ----
(***************************************************************************)
(* Elevation-aware grid pathfinding of mini-rts: the traversal rules of    *)
(* TileWalkability.ts and the Pathfinding engine (search grid, A* search,  *)
(* path smoothing, building blocking).                                     *)
(*                                                                         *)
(* World coordinates are integers (pixels).  Path costs are IEEE doubles   *)
(* in the program; every cost the search computes is a sum of 1's and      *)
(* Math.SQRT2's, so a double is kept here as <<a, b, e>>, standing for     *)
(*      a + b * SQRT2 + e * 2^-52                                          *)
(* where SQRT2 is the double nearest the square root of two and e is the   *)
(* rounding error accumulated so far.  Additions round to nearest, ties to *)
(* even, as the hardware does, so that ties between equal-length routes    *)
(* are broken exactly as in the program.                                   *)
(***************************************************************************)
EXTENDS Integers, Sequences, FiniteSets, TLC

(***************************************************************************)
(* Bounds of the model.                                                    *)
(***************************************************************************)
\* The Pathfinding made first covers a map of MapCols x MapRows tiles.
MapCols == 3
MapRows == 3
\* Calls made on one Pathfinding instance: those that change the terrain or the
\* obstacles (setWalkable, setTerrainLevel, markBuildingBlocked), and searches.
MaxOps == 2
MaxSearches == 1

(***************************************************************************)
(* TerrainTypes.ts                                                         *)
(***************************************************************************)
TILE_SIZE == 64

WATER == -1
FLAT == 0
ELEVATED_1 == 1
ELEVATED_2 == 2
RAMP == 3

TerrainLevel == {WATER, FLAT, ELEVATED_1, ELEVATED_2, RAMP}

isElevated(level) == level = ELEVATED_1 \/ level = ELEVATED_2

isGround(level) == level # WATER

(***************************************************************************)
(* TileWalkability.ts                                                      *)
(***************************************************************************)
\* canTraverse without its last check: two different elevated tiers pass.
canTraverse_NoTierCheck(fromLevel, toLevel) ==
    IF fromLevel = WATER \/ toLevel = WATER THEN FALSE
    ELSE IF fromLevel = toLevel THEN TRUE
    ELSE IF fromLevel = RAMP \/ toLevel = RAMP THEN TRUE
    ELSE IF fromLevel = FLAT /\ isElevated(toLevel) THEN FALSE
    ELSE IF isElevated(fromLevel) /\ toLevel = FLAT THEN FALSE
    ELSE TRUE

\* canTraverse without its check of a descent: an elevated tier passes to Flat.
canTraverse_Descend(fromLevel, toLevel) ==
    IF fromLevel = WATER \/ toLevel = WATER THEN FALSE
    ELSE IF fromLevel = toLevel THEN TRUE
    ELSE IF fromLevel = RAMP \/ toLevel = RAMP THEN TRUE
    ELSE IF fromLevel = FLAT /\ isElevated(toLevel) THEN FALSE
    ELSE IF isElevated(fromLevel) /\ isElevated(toLevel) /\ fromLevel # toLevel THEN FALSE
    ELSE TRUE

canTraverse(fromLevel, toLevel) ==
    IF fromLevel = WATER \/ toLevel = WATER THEN FALSE
    ELSE IF fromLevel = toLevel THEN TRUE
    ELSE IF fromLevel = RAMP \/ toLevel = RAMP THEN TRUE
    ELSE IF fromLevel = FLAT /\ isElevated(toLevel) THEN FALSE
    ELSE IF isElevated(fromLevel) /\ toLevel = FLAT THEN FALSE
    ELSE IF isElevated(fromLevel) /\ isElevated(toLevel) /\ fromLevel # toLevel THEN FALSE
    ELSE TRUE

(***************************************************************************)
(* Double arithmetic on numbers a + b*SQRT2 + e*2^-52.                     *)
(***************************************************************************)
Abs(n) == IF n < 0 THEN -n ELSE n

Min(m, n) == IF m < n THEN m ELSE n

\* The low 16 bits of the 53-bit significand 0x16A09E667F3BCD of Math.SQRT2.
SQRT2_LOW == 15309

\* a1 + b1*sqrt(2) < a2 + b2*sqrt(2), over the reals.
RealLess(a1, b1, a2, b2) ==
    LET da == a1 - a2
        db == b2 - b1
    IN  IF da < 0 /\ db >= 0 THEN TRUE
        ELSE IF da >= 0 /\ db <= 0 THEN FALSE
        ELSE IF da >= 0 THEN da * da < 2 * db * db
        ELSE da * da > 2 * db * db

RealSign(a, b) ==
    IF RealLess(0, 0, a, b) THEN 1
    ELSE IF RealLess(a, b, 0, 0) THEN -1
    ELSE 0

\* The unit in the last place of a positive a + b*sqrt(2), in multiples of 2^-52
\* (1 for a value below 2, whose sums of multiples of 2^-52 are exact).
RECURSIVE Ulp(_, _, _)
Ulp(a, b, u) == IF RealLess(a, b, 2 * u, 0) THEN u ELSE Ulp(a, b, 2 * u)

\* Round to nearest double, ties to even: v has sign s and unit in the last place
\* u, low is its tail below 2u and r the part of the tail below u.
RoundRem(v, s, u, low, r) ==
    <<v[1], v[2],
      IF 2 * r < u \/ (2 * r = u /\ low = r) THEN v[3] - s * r ELSE v[3] + s * (u - r)>>

RoundLow(v, s, u, low) == RoundRem(v, s, u, low, low % u)

RoundUlp(v, s, u) == RoundLow(v, s, u, (s * v[2] * SQRT2_LOW + s * v[3]) % (2 * u))

RoundSigned(v, s) ==
    IF s = 0 THEN <<0, 0, 0>> ELSE RoundUlp(v, s, Ulp(s * v[1], s * v[2], 1))

Round(v) == RoundSigned(v, RealSign(v[1], v[2]))

\* x + y
FAdd(x, y) == Round(<<x[1] + y[1], x[2] + y[2], x[3] + y[3]>>)

\* (Math.SQRT2 - 2) * m for an integer m; SQRT2 - 2 is itself exact.
FMulSqrt2Minus2(m) == Round(<<-2 * m, m, 0>>)

\* x < y
FLess(x, y) ==
    IF x[1] = y[1] /\ x[2] = y[2] THEN x[3] < y[3]
    ELSE RealLess(x[1], x[2], y[1], y[2])

FZero == <<0, 0, 0>>

(***************************************************************************)
(* Pathfinding: the search grid.                                           *)
(***************************************************************************)
\* Math.ceil(n / d) for d > 0.
Ceil(n, d) == -((-n) \div d)

\* GameScene.create: new Pathfinding(mapWidth * TILE_SIZE, mapHeight * TILE_SIZE, TILE_SIZE)
cellSize == TILE_SIZE

\* The size of the grid of the Pathfinding at hand, which its constructor sets:
\* this.gridWidth = Math.ceil(worldWidth / cellSize), this.gridHeight likewise.
VARIABLES gridWidth, gridHeight

\* parent: null
NULL == <<>>

\* grid[y][x], as in the program.
initializeGrid ==
    [y \in 0..(gridHeight - 1) |->
        [x \in 0..(gridWidth - 1) |->
            [x |-> x, y |-> y, walkable |-> TRUE, terrainLevel |-> FLAT,
             g |-> FZero, h |-> FZero, f |-> FZero, parent |-> NULL]]]

isValidCell(x, y) == x >= 0 /\ x < gridWidth /\ y >= 0 /\ y < gridHeight

setWalkable(grid, gridX, gridY, walkable) ==
    IF isValidCell(gridX, gridY)
    THEN [grid EXCEPT ![gridY][gridX].walkable = walkable]
    ELSE grid

\* setTerrainLevel storing the level without deriving the walkable flag from it.
setTerrainLevel_KeepWalkable(grid, gridX, gridY, level) ==
    IF isValidCell(gridX, gridY)
    THEN [grid EXCEPT ![gridY][gridX].terrainLevel = level]
    ELSE grid

setTerrainLevel(grid, gridX, gridY, level) ==
    IF isValidCell(gridX, gridY)
    THEN [grid EXCEPT ![gridY][gridX].terrainLevel = level,
                      ![gridY][gridX].walkable = (level # WATER)]
    ELSE grid

\* Math.floor(world / cellSize) on each axis.
worldToGrid(worldX, worldY) ==
    [x |-> worldX \div cellSize, y |-> worldY \div cellSize]

\* worldToGrid of a point given by twice its coordinates (worldX - widthPx / 2
\* may be a half-integer).
worldToGridHalves(twiceX, twiceY) ==
    [x |-> twiceX \div (2 * cellSize), y |-> twiceY \div (2 * cellSize)]

gridToWorld(gridX, gridY) ==
    [x |-> gridX * cellSize + cellSize \div 2,
     y |-> gridY * cellSize + cellSize \div 2]

\* resetGrid by building the grid anew: walkable and terrainLevel are lost too.
resetGrid_Reinitialize(grid) == initializeGrid

\* resetGrid clearing g, h and f but leaving every parent as the last search set it.
resetGrid_KeepParent(grid) ==
    [y \in 0..(gridHeight - 1) |->
        [x \in 0..(gridWidth - 1) |->
            [grid[y][x] EXCEPT !.g = FZero, !.h = FZero, !.f = FZero]]]

resetGrid(grid) ==
    [y \in 0..(gridHeight - 1) |->
        [x \in 0..(gridWidth - 1) |->
            [grid[y][x] EXCEPT !.g = FZero, !.h = FZero, !.f = FZero, !.parent = NULL]]]

directions ==
    << <<0, -1>>, <<1, 0>>, <<0, 1>>, <<-1, 0>>,
       <<1, -1>>, <<1, 1>>, <<-1, 1>>, <<-1, -1>> >>

\* The in-range neighbours of a cell, as <<x, y>>, in the order of `directions`.
RECURSIVE NeighborsFrom(_, _, _)
NeighborsFrom(x, y, i) ==
    IF i > Len(directions) THEN <<>>
    ELSE LET nx == x + directions[i][1]
             ny == y + directions[i][2]
         IN  (IF isValidCell(nx, ny) THEN << <<nx, ny>> >> ELSE <<>>)
                 \o NeighborsFrom(x, y, i + 1)

getNeighbors(x, y) == NeighborsFrom(x, y, 1)

\* dx + dy + (Math.SQRT2 - 2) * Math.min(dx, dy)
getDistance(ax, ay, bx, by) ==
    LET dx == Abs(ax - bx)
        dy == Abs(ay - by)
    IN  FAdd(<<dx + dy, 0, 0>>, FMulSqrt2Minus2(Min(dx, dy)))

(***************************************************************************)
(* Pathfinding.findPath: A* over the 8-connected grid.  A cell is <<x, y>>. *)
(***************************************************************************)
Node(grid, c) == grid[c[2]][c[1]]

\* The scan of the open list keeping the last node it meets: the open list
\* served last in, first out.
LowestF_Last(grid, openList, i, currentIndex) == Len(openList)

\* The index of the first open node of least f (the linear scan of the open list).
RECURSIVE LowestF(_, _, _, _)
LowestF(grid, openList, i, currentIndex) ==
    IF i > Len(openList) THEN currentIndex
    ELSE IF FLess(Node(grid, openList[i]).f, Node(grid, openList[currentIndex]).f)
    THEN LowestF(grid, openList, i + 1, i)
    ELSE LowestF(grid, openList, i + 1, currentIndex)

\* splice that takes nothing off the list.
Splice_Keep(openList, index) == openList

\* openList.splice(index, 1)
Splice(openList, index) ==
    [j \in 1..(Len(openList) - 1) |-> IF j < index THEN openList[j] ELSE openList[j + 1]]

\* openList.includes(neighbor)
Includes(openList, c) == \E j \in 1..Len(openList) : openList[j] = c

\* Admits without the walkable test of the neighbour.
Admits_IgnoreWalkable(grid, current, neighbor) ==
    LET cur == Node(grid, current)
        nb == Node(grid, neighbor)
        dx == neighbor[1] - current[1]
        dy == neighbor[2] - current[2]
    IN  /\ canTraverse(cur.terrainLevel, nb.terrainLevel)
        /\ (dx # 0 /\ dy # 0) =>
              LET cx == grid[current[2]][neighbor[1]]
                  cy == grid[neighbor[2]][current[1]]
              IN  /\ cx.walkable /\ cy.walkable
                  /\ canTraverse(cur.terrainLevel, cx.terrainLevel)
                  /\ canTraverse(cur.terrainLevel, cy.terrainLevel)

\* Admits without the test of the two cells flanking a diagonal move.
Admits_NoCornerCheck(grid, current, neighbor) ==
    LET cur == Node(grid, current)
        nb == Node(grid, neighbor)
    IN  /\ nb.walkable
        /\ canTraverse(cur.terrainLevel, nb.terrainLevel)

\* The checks a neighbour passes before it is costed: walkable, traversable from
\* the current cell and, on a diagonal, both flanking cells walkable and
\* traversable from the current cell.
Admits(grid, current, neighbor) ==
    LET cur == Node(grid, current)
        nb == Node(grid, neighbor)
        dx == neighbor[1] - current[1]
        dy == neighbor[2] - current[2]
    IN  /\ nb.walkable
        /\ canTraverse(cur.terrainLevel, nb.terrainLevel)
        /\ (dx # 0 /\ dy # 0) =>
              LET cx == grid[current[2]][neighbor[1]]
                  cy == grid[neighbor[2]][current[1]]
              IN  /\ cx.walkable /\ cy.walkable
                  /\ canTraverse(cur.terrainLevel, cx.terrainLevel)
                  /\ canTraverse(cur.terrainLevel, cy.terrainLevel)

\* The loop over the neighbours without `if (closedList.has(...)) continue`.
RECURSIVE VisitNeighbors_Reopen(_, _, _, _, _, _, _)
VisitNeighbors_Reopen(grid, openList, closedList, current, neighbors, end, i) ==
    IF i > Len(neighbors) THEN [grid |-> grid, openList |-> openList]
    ELSE LET neighbor == neighbors[i]
         IN  IF ~Admits(grid, current, neighbor)
             THEN VisitNeighbors_Reopen(grid, openList, closedList, current, neighbors, end, i + 1)
             ELSE LET tentativeG == FAdd(Node(grid, current).g,
                                         getDistance(current[1], current[2], neighbor[1], neighbor[2]))
                      inOpenList == Includes(openList, neighbor)
                  IN  IF ~inOpenList \/ FLess(tentativeG, Node(grid, neighbor).g)
                      THEN LET h == getDistance(neighbor[1], neighbor[2], end[1], end[2])
                               grid2 == [grid EXCEPT
                                            ![neighbor[2]][neighbor[1]].parent = current,
                                            ![neighbor[2]][neighbor[1]].g = tentativeG,
                                            ![neighbor[2]][neighbor[1]].h = h,
                                            ![neighbor[2]][neighbor[1]].f = FAdd(tentativeG, h)]
                           IN  VisitNeighbors_Reopen(grid2,
                                   IF inOpenList THEN openList ELSE Append(openList, neighbor),
                                   closedList, current, neighbors, end, i + 1)
                      ELSE VisitNeighbors_Reopen(grid, openList, closedList, current, neighbors, end, i + 1)

\* The body of `for (const neighbor of neighbors)` from the i-th neighbour on.
RECURSIVE VisitNeighbors(_, _, _, _, _, _, _)
VisitNeighbors(grid, openList, closedList, current, neighbors, end, i) ==
    IF i > Len(neighbors) THEN [grid |-> grid, openList |-> openList]
    ELSE LET neighbor == neighbors[i]
         IN  IF neighbor \in closedList \/ ~Admits(grid, current, neighbor)
             THEN VisitNeighbors(grid, openList, closedList, current, neighbors, end, i + 1)
             ELSE LET tentativeG == FAdd(Node(grid, current).g,
                                         getDistance(current[1], current[2], neighbor[1], neighbor[2]))
                      inOpenList == Includes(openList, neighbor)
                  IN  IF ~inOpenList \/ FLess(tentativeG, Node(grid, neighbor).g)
                      THEN LET h == getDistance(neighbor[1], neighbor[2], end[1], end[2])
                               grid2 == [grid EXCEPT
                                            ![neighbor[2]][neighbor[1]].parent = current,
                                            ![neighbor[2]][neighbor[1]].g = tentativeG,
                                            ![neighbor[2]][neighbor[1]].h = h,
                                            ![neighbor[2]][neighbor[1]].f = FAdd(tentativeG, h)]
                           IN  VisitNeighbors(grid2,
                                   IF inOpenList THEN openList ELSE Append(openList, neighbor),
                                   closedList, current, neighbors, end, i + 1)
                      ELSE VisitNeighbors(grid, openList, closedList, current, neighbors, end, i + 1)

\* reconstructPath with push in place of unshift: the waypoints come out goal first.
RECURSIVE reconstructPath_Push(_, _)
reconstructPath_Push(grid, current) ==
    IF current = NULL THEN <<>>
    ELSE LET worldPos == gridToWorld(current[1], current[2])
         IN  <<<<worldPos.x, worldPos.y>>>> \o
                 reconstructPath_Push(grid, Node(grid, current).parent)

\* Follow parent from endNode to a node without one; each cell becomes its centre.
RECURSIVE reconstructPath(_, _)
reconstructPath(grid, current) ==
    IF current = NULL THEN <<>>
    ELSE LET worldPos == gridToWorld(current[1], current[2])
         IN  Append(reconstructPath(grid, Node(grid, current).parent),
                    <<worldPos.x, worldPos.y>>)

\* while (openList.length > 0) { ... }, for at most n passes from the search s:
\* its grid, openList and closedList, and once the loop is left (done) what is
\* returned.  n passes are the first n \div 2 and then the others; the last is
\* the one that finds the open list empty.
RECURSIVE SearchLoop(_, _, _)
SearchLoop(s, end, n) ==
    IF n = 0 \/ s.done THEN s
    ELSE IF n > 1 THEN SearchLoop(SearchLoop(s, end, n \div 2), end, n - n \div 2)
    ELSE IF Len(s.openList) = 0 THEN [s EXCEPT !.done = TRUE]
    ELSE LET currentIndex == LowestF(s.grid, s.openList, 2, 1)
             current == s.openList[currentIndex]
         IN  IF current = end
             THEN [s EXCEPT !.ret = reconstructPath(s.grid, current), !.done = TRUE]
             ELSE LET closed2 == s.closedList \cup {current}
                      step == VisitNeighbors(s.grid, Splice(s.openList, currentIndex), closed2,
                                             current, getNeighbors(current[1], current[2]), end, 1)
                  IN  [s EXCEPT !.grid = step.grid, !.openList = step.openList,
                                !.closedList = closed2]

\* The returned waypoints (ret) and the grid with the search's scratch fields.
\* Every pass of the loop but the last closes a cell, and a closed cell is not
\* opened again: the loop is left within gridWidth * gridHeight + 1 passes.
findPath(grid, startX, startY, endX, endY) ==
    LET start == worldToGrid(startX, startY)
        end == worldToGrid(endX, endY)
        searched == SearchLoop([grid |-> resetGrid(grid),
                                openList |-> << <<start.x, start.y>> >>,
                                closedList |-> {}, ret |-> <<>>, done |-> FALSE],
                               <<end.x, end.y>>, gridWidth * gridHeight + 1)
    IN  IF ~isValidCell(start.x, start.y) \/ ~isValidCell(end.x, end.y)
        THEN [ret |-> <<>>, grid |-> grid]
        ELSE IF ~grid[end.y][end.x].walkable
        THEN [ret |-> <<>>, grid |-> grid]
        ELSE [ret |-> searched.ret, grid |-> searched.grid]

(***************************************************************************)
(* Pathfinding.markBuildingBlocked and findPathSmooth.                     *)
(***************************************************************************)
\* The inner loop flipping the flag of each cell instead of clearing it.
RECURSIVE BlockRow_Toggle(_, _, _, _)
BlockRow_Toggle(grid, gy, gx, endX) ==
    IF gx > endX THEN grid
    ELSE BlockRow_Toggle(IF isValidCell(gx, gy)
                         THEN setWalkable(grid, gx, gy, ~grid[gy][gx].walkable)
                         ELSE grid,
                         gy, gx + 1, endX)

\* for (gx = startGrid.x; gx <= endGrid.x; gx++) this.setWalkable(gx, gy, false)
RECURSIVE BlockRow(_, _, _, _)
BlockRow(grid, gy, gx, endX) ==
    IF gx > endX THEN grid
    ELSE BlockRow(setWalkable(grid, gx, gy, FALSE), gy, gx + 1, endX)

\* for (gy = startGrid.y; gy <= endGrid.y; gy++) ...
RECURSIVE BlockRows(_, _, _, _, _)
BlockRows(grid, gy, endY, startX, endX) ==
    IF gy > endY THEN grid
    ELSE BlockRows(BlockRow(grid, gy, startX, endX), gy + 1, endY, startX, endX)

\* markBuildingBlocked taking (worldX, worldY) for the top-left corner of the box.
markBuildingBlocked_FromCorner(grid, worldX, worldY, widthPx, heightPx) ==
    LET startGrid == worldToGridHalves(2 * worldX, 2 * worldY)
        endGrid == worldToGridHalves(2 * worldX + 2 * widthPx, 2 * worldY + 2 * heightPx)
    IN  BlockRows(grid, startGrid.y, endGrid.y, startGrid.x, endGrid.x)

markBuildingBlocked(grid, worldX, worldY, widthPx, heightPx) ==
    LET startGrid == worldToGridHalves(2 * worldX - widthPx, 2 * worldY - heightPx)
        endGrid == worldToGridHalves(2 * worldX + widthPx, 2 * worldY + heightPx)
    IN  BlockRows(grid, startGrid.y, endGrid.y, startGrid.x, endGrid.x)

\* The loop of findPathSmooth with `cross > 0.001` in place of
\* `Math.abs(cross) > 0.001`: a turn of negative cross product is dropped.
RECURSIVE SmoothFrom_NoAbs(_, _, _)
SmoothFrom_NoAbs(raw, smoothed, i) ==
    IF i > Len(raw) - 1 THEN smoothed
    ELSE LET prev == smoothed[Len(smoothed)]
             curr == raw[i]
             next == raw[i + 1]
             cross == (curr[1] - prev[1]) * (next[2] - curr[2])
                          - (curr[2] - prev[2]) * (next[1] - curr[1])
         IN  SmoothFrom_NoAbs(raw, IF 1000 * cross > 1 THEN Append(smoothed, curr) ELSE smoothed,
                              i + 1)

\* The loop of findPathSmooth over the interior waypoints raw[i].
\* Math.abs(cross) > 0.001 is taken as 1000 * |cross| > 1 on integer coordinates.
RECURSIVE SmoothFrom(_, _, _)
SmoothFrom(raw, smoothed, i) ==
    IF i > Len(raw) - 1 THEN smoothed
    ELSE LET prev == smoothed[Len(smoothed)]
             curr == raw[i]
             next == raw[i + 1]
             d1x == curr[1] - prev[1]
             d1y == curr[2] - prev[2]
             d2x == next[1] - curr[1]
             d2y == next[2] - curr[2]
             cross == d1x * d2y - d1y * d2x
         IN  SmoothFrom(raw, IF 1000 * Abs(cross) > 1 THEN Append(smoothed, curr) ELSE smoothed,
                        i + 1)

\* findPathSmooth returning early for the empty path only (`raw.length === 0`
\* in place of `raw.length <= 2`).
Smooth_EmptyOnly(raw) ==
    IF Len(raw) = 0 THEN raw
    ELSE Append(SmoothFrom(raw, <<raw[1]>>, 2), raw[Len(raw)])

\* The waypoints findPathSmooth makes of the raw path.
Smooth(raw) ==
    IF Len(raw) <= 2 THEN raw
    ELSE Append(SmoothFrom(raw, <<raw[1]>>, 2), raw[Len(raw)])

findPathSmooth(grid, startX, startY, endX, endY) ==
    LET found == findPath(grid, startX, startY, endX, endY)
    IN  [ret |-> Smooth(found.ret), raw |-> found.ret, grid |-> found.grid]

(***************************************************************************)
(* One Pathfinding instance and the calls made on it.                      *)
(***************************************************************************)
VARIABLES
    grid,       \* this.grid: walkable, terrainLevel and the scratch fields of every node
    nOps,       \* setWalkable / setTerrainLevel / markBuildingBlocked calls made so far
    nSearches,  \* findPath / findPathSmooth calls made so far
    lastCall,   \* the last call: its name and arguments
    raw,        \* what the last findPath (called directly or by findPathSmooth) returned
    result,     \* what the last call returned (<<>> for a void method)
    blocked,    \* history: the cells markBuildingBlocked calls have made unwalkable
    terrain,    \* the TerrainMap at hand: width, height and cells (NoMap before one is made)
    saved,      \* the SavedMapData the last toData call returned (NoData before)
    registry,   \* the savedMapData of the game registry (NoData when it has none)
    queue,      \* ProductionQueue.queue: the entries, the one in training first
    gold,       \* EconomyManager.gold
    search      \* the findPath call in progress: openList, closedList and the goal cell

vars == <<gridWidth, gridHeight, grid, nOps, nSearches, lastCall, raw, result, blocked,
          terrain, saved, registry, queue, gold, search>>

\* constructor(eventEmitter, startingGold = 200, baseIncomePerSecond = 2)
STARTING_GOLD == 200

NoMap == [width |-> 0, height |-> 0, cells |-> <<>>, made |-> FALSE]

NoData == [width |-> 0, height |-> 0, cells |-> <<>>,
           entities |-> [type |-> "undefined", val |-> 0], made |-> FALSE]

\* No findPath call is in progress.  expanded is history: the cells taken off
\* the open list so far, in order.
NoSearch == [phase |-> "idle", openList |-> <<>>, closedList |-> {}, end |-> <<0, 0>>,
             expanded |-> <<>>]

Cells == {<<x, y>> : x \in 0..(gridWidth - 1), y \in 0..(gridHeight - 1)}

\* The centre of a cell, as a world point <<x, y>>.
Centre(c) == <<gridToWorld(c[1], c[2]).x, gridToWorld(c[1], c[2]).y>>

\* Cell arguments of setWalkable / setTerrainLevel: every cell, and one outside the grid.
CellArgs == Cells \cup {<<gridWidth, 0>>}

\* World points of queries: a point of cell (0,0) off its centre, the centres of
\* cell (1,1), of the last cell of the first row and of the last cell of the grid,
\* the pixel left of the grid and the first pixel right of it.
QueryPoints ==
    {<<1, cellSize - 1>>, Centre(<<1, 1>>), Centre(<<gridWidth - 1, 0>>),
     Centre(<<gridWidth - 1, gridHeight - 1>>),
     <<-1, cellSize \div 2>>, <<gridWidth * cellSize, cellSize \div 2>>}

\* Building footprints <<widthPx, heightPx>>, the display sizes of BUILDING_DISPLAY:
\* the castle, the barracks (archery and monastery alike) and the tower.
Footprints == {<<160, 128>>, <<96, 128>>, <<64, 128>>}

\* Buildings stand on tile centres.
BuildingSites == {Centre(c) : c \in Cells}

\* The cells of the grid in the cell range markBuildingBlocked loops over.
Covered(worldX, worldY, widthPx, heightPx) ==
    LET startGrid == worldToGridHalves(2 * worldX - widthPx, 2 * worldY - heightPx)
        endGrid == worldToGridHalves(2 * worldX + widthPx, 2 * worldY + heightPx)
    IN  {c \in Cells : /\ startGrid.x <= c[1] /\ c[1] <= endGrid.x
                       /\ startGrid.y <= c[2] /\ c[2] <= endGrid.y}

Init ==
    /\ gridWidth = Ceil(MapCols * TILE_SIZE, cellSize)
    /\ gridHeight = Ceil(MapRows * TILE_SIZE, cellSize)
    /\ grid = initializeGrid
    /\ blocked = {}
    /\ nOps = 0
    /\ nSearches = 0
    /\ lastCall = [op |-> "new", args |-> <<>>]
    /\ raw = <<>>
    /\ result = <<>>
    /\ terrain = NoMap
    /\ saved = NoData
    /\ registry = NoData
    /\ queue = <<>>
    /\ gold = STARTING_GOLD
    /\ search = NoSearch

SetWalkable(c, walkable) ==
    /\ nOps < MaxOps
    /\ grid' = setWalkable(grid, c[1], c[2], walkable)
    /\ nOps' = nOps + 1
    /\ lastCall' = [op |-> "setWalkable", args |-> <<c[1], c[2], walkable>>]
    /\ raw' = <<>>
    /\ result' = <<>>
    /\ UNCHANGED <<nSearches, blocked, terrain, saved, queue, gold, search, registry, gridWidth, gridHeight>>

SetTerrainLevel(c, level) ==
    /\ nOps < MaxOps
    /\ grid' = setTerrainLevel(grid, c[1], c[2], level)
    /\ nOps' = nOps + 1
    /\ lastCall' = [op |-> "setTerrainLevel", args |-> <<c[1], c[2], level>>]
    /\ raw' = <<>>
    /\ result' = <<>>
    /\ UNCHANGED <<nSearches, blocked, terrain, saved, queue, gold, search, registry, gridWidth, gridHeight>>

MarkBuildingBlocked(site, size) ==
    /\ nOps < MaxOps
    /\ grid' = markBuildingBlocked(grid, site[1], site[2], size[1], size[2])
    /\ nOps' = nOps + 1
    /\ lastCall' = [op |-> "markBuildingBlocked", args |-> <<site[1], site[2], size[1], size[2]>>]
    /\ raw' = <<>>
    /\ result' = <<>>
    /\ blocked' = blocked \cup Covered(site[1], site[2], size[1], size[2])
    /\ UNCHANGED <<nSearches, terrain, saved, queue, gold, search, registry, gridWidth, gridHeight>>

FindPath(from, to) ==
    /\ nSearches < MaxSearches
    /\ \E found \in {findPath(grid, from[1], from[2], to[1], to[2])} :
           /\ grid' = found.grid
           /\ raw' = found.ret
           /\ result' = found.ret
    /\ nSearches' = nSearches + 1
    /\ lastCall' = [op |-> "findPath", args |-> <<from[1], from[2], to[1], to[2]>>]
    /\ UNCHANGED <<nOps, blocked, terrain, saved, queue, gold, search, registry, gridWidth, gridHeight>>

FindPathSmooth(from, to) ==
    /\ nSearches < MaxSearches
    /\ \E found \in {findPathSmooth(grid, from[1], from[2], to[1], to[2])} :
           /\ grid' = found.grid
           /\ raw' = found.raw
           /\ result' = found.ret
    /\ nSearches' = nSearches + 1
    /\ lastCall' = [op |-> "findPathSmooth", args |-> <<from[1], from[2], to[1], to[2]>>]
    /\ UNCHANGED <<nOps, blocked, terrain, saved, queue, gold, search, registry, gridWidth, gridHeight>>

Next ==
    \/ \E c \in CellArgs, walkable \in BOOLEAN : SetWalkable(c, walkable)
    \/ \E c \in CellArgs, level \in TerrainLevel : SetTerrainLevel(c, level)
    \/ \E site \in BuildingSites, size \in Footprints : MarkBuildingBlocked(site, size)
    \/ \E from \in QueryPoints, to \in QueryPoints : FindPath(from, to)
    \/ \E from \in QueryPoints, to \in QueryPoints : FindPathSmooth(from, to)

Spec == Init /\ [][Next]_vars

(***************************************************************************)
(* Vocabulary of the properties.                                           *)
(***************************************************************************)
Searched == lastCall.op \in {"findPath", "findPathSmooth"}

\* The start and goal cells of the last search, as worldToGrid gives them.
StartCell == <<worldToGrid(lastCall.args[1], lastCall.args[2]).x,
               worldToGrid(lastCall.args[1], lastCall.args[2]).y>>
GoalCell == <<worldToGrid(lastCall.args[3], lastCall.args[4]).x,
              worldToGrid(lastCall.args[3], lastCall.args[4]).y>>

InGrid(c) == c[1] \in 0..(gridWidth - 1) /\ c[2] \in 0..(gridHeight - 1)

Walkable(c) == grid[c[2]][c[1]].walkable
Kind(c) == grid[c[2]][c[1]].terrainLevel

\* The cell a waypoint lies in.
CellOf(p) == <<worldToGrid(p[1], p[2]).x, worldToGrid(p[1], p[2]).y>>

\* Cells at a king's move from each other.
Adjacent(c, d) == c # d /\ Abs(c[1] - d[1]) <= 1 /\ Abs(c[2] - d[2]) <= 1

Diagonal(c, d) == c[1] # d[1] /\ c[2] # d[2]

\* The corner rule for a diagonal step from c to d: both flanking cells are
\* walkable and traversable from c.
CornersOpen(c, d) ==
    /\ Walkable(<<d[1], c[2]>>) /\ Walkable(<<c[1], d[2]>>)
    /\ canTraverse(Kind(c), Kind(<<d[1], c[2]>>))
    /\ canTraverse(Kind(c), Kind(<<c[1], d[2]>>))

\* An admissible move from cell c to cell d.
Move(c, d) ==
    /\ Adjacent(c, d)
    /\ Walkable(d)
    /\ canTraverse(Kind(c), Kind(d))
    /\ Diagonal(c, d) => CornersOpen(c, d)

\* The cells reachable from the cells of S by chains of admissible moves.
RECURSIVE ReachableFrom(_)
ReachableFrom(S) ==
    LET T == S \cup {d \in Cells : \E c \in S : Move(c, d)}
    IN  IF T = S THEN S ELSE ReachableFrom(T)

(***************************************************************************)
(* C1. For every pair (from, to) of {Water, Flat, Elevated1, Elevated2,    *)
(* Ramp}, canTraverse(from, to) is true exactly when neither side is Water *)
(* and (from = to or at least one side is Ramp); in particular every kind  *)
(* but Water traverses to itself, Water traverses to and from nothing,     *)
(* Flat-Elevated1 and Elevated1-Elevated2 are false, Flat-Ramp and         *)
(* Ramp-Elevated2 are true.                                                *)
(***************************************************************************)
C1_CanTraverseTable ==
    /\ \A from \in TerrainLevel, to \in TerrainLevel :
          canTraverse(from, to) <=>
              (from # WATER /\ to # WATER /\ (from = to \/ from = RAMP \/ to = RAMP))
    /\ \A k \in TerrainLevel \ {WATER} : canTraverse(k, k)
    /\ \A k \in TerrainLevel : ~canTraverse(WATER, k) /\ ~canTraverse(k, WATER)
    /\ ~canTraverse(FLAT, ELEVATED_1)
    /\ ~canTraverse(ELEVATED_1, ELEVATED_2)
    /\ canTraverse(FLAT, RAMP)
    /\ canTraverse(RAMP, ELEVATED_2)
    \* and so between the kinds of any two cells of the search grid
    /\ \A c \in Cells, d \in Cells :
          canTraverse(Kind(c), Kind(d)) <=>
              (/\ Kind(c) # WATER /\ Kind(d) # WATER
               /\ (Kind(c) = Kind(d) \/ Kind(c) = RAMP \/ Kind(d) = RAMP))

\* A search has returned a route that climbs from a Flat cell onto a Ramp cell and
\* from the Ramp onto an elevated cell.
C1_Witness ==
    /\ Searched
    /\ \E i \in 1..(Len(raw) - 2) :
          /\ Kind(CellOf(raw[i])) = FLAT
          /\ Kind(CellOf(raw[i + 1])) = RAMP
          /\ isElevated(Kind(CellOf(raw[i + 2])))

(***************************************************************************)
(* C2. When the start and goal cells of a findPath are in range and        *)
(* walkable and the goal is reachable from the start by a chain of         *)
(* admissible moves, findPath returns a non-empty sequence whose first     *)
(* point is the centre of the start cell and whose last point is the       *)
(* centre of the goal cell.                                                *)
(***************************************************************************)
C2_ReachableGoalIsFound ==
    (/\ Searched
     /\ InGrid(StartCell) /\ InGrid(GoalCell)
     /\ Walkable(StartCell) /\ Walkable(GoalCell)
     /\ GoalCell \in ReachableFrom({StartCell}))
    => /\ Len(raw) >= 1
       /\ raw[1] = Centre(StartCell)
       /\ raw[Len(raw)] = Centre(GoalCell)
       /\ CellOf(raw[1]) = StartCell
       /\ CellOf(raw[Len(raw)]) = GoalCell

\* A search between two different walkable cells, around an obstacle, has
\* returned a route of at least four waypoints.
C2_Witness ==
    /\ Searched
    /\ InGrid(StartCell) /\ InGrid(GoalCell)
    /\ Walkable(StartCell) /\ Walkable(GoalCell)
    /\ StartCell # GoalCell
    /\ \E c \in Cells : ~Walkable(c)
    /\ GoalCell \in ReachableFrom({StartCell})
    /\ Len(raw) >= 4

(***************************************************************************)
(* C3. In every non-empty sequence findPath returns, consecutive waypoints *)
(* are centres of 8-adjacent cells (current, next) with next walkable and  *)
(* canTraverse(current.kind, next.kind); so no waypoint after the first    *)
(* lies in an unwalkable cell.                                             *)
(***************************************************************************)
C3_StepsAreAdmissible ==
    Searched =>
        /\ \A i \in 1..Len(raw) : InGrid(CellOf(raw[i])) /\ raw[i] = Centre(CellOf(raw[i]))
        /\ \A i \in 1..(Len(raw) - 1) :
              /\ Adjacent(CellOf(raw[i]), CellOf(raw[i + 1]))
              /\ Walkable(CellOf(raw[i + 1]))
              /\ canTraverse(Kind(CellOf(raw[i])), Kind(CellOf(raw[i + 1])))
        /\ \A i \in 2..Len(raw) : Walkable(CellOf(raw[i]))

\* A search has returned a route on a grid where some cell was made unwalkable
\* and some cell is Water, and the route has at least three waypoints.
C3_Witness ==
    /\ Searched
    /\ Len(raw) >= 3
    /\ \E c \in Cells : ~Walkable(c) /\ Kind(c) # WATER
    /\ \E c \in Cells : Kind(c) = WATER

(***************************************************************************)
(* C4. In every sequence findPath returns, each diagonal step from (x,y)   *)
(* to (x+dx,y+dy) has both flanking cells (x+dx,y) and (x,y+dy) walkable   *)
(* and traversable from (x,y).                                             *)
(***************************************************************************)
C4_NoCornerCutting ==
    Searched =>
        \A i \in 1..(Len(raw) - 1) :
            Diagonal(CellOf(raw[i]), CellOf(raw[i + 1])) =>
                CornersOpen(CellOf(raw[i]), CellOf(raw[i + 1]))

\* A search has gone round a corner: the goal is diagonal to the start, a flanking
\* cell closes that diagonal, and the route returned takes three waypoints.
C4_Witness ==
    /\ Searched
    /\ InGrid(StartCell) /\ InGrid(GoalCell)
    /\ Adjacent(StartCell, GoalCell) /\ Diagonal(StartCell, GoalCell)
    /\ ~CornersOpen(StartCell, GoalCell)
    /\ Len(raw) = 3

(***************************************************************************)
(* C5. In every state of the search grid reachable by setTerrainKind,      *)
(* setWalkable and markBuildingBlocked calls, findPath returns an empty    *)
(* sequence whenever the goal cell's kind is Water, whenever the goal cell *)
(* is not walkable, and whenever the start or the goal cell lies outside   *)
(* the grid.                                                               *)
(***************************************************************************)
C5_EmptyForBadGoal ==
    Searched =>
        IF ~InGrid(StartCell) \/ ~InGrid(GoalCell) THEN raw = <<>>
        ELSE (Kind(GoalCell) = WATER \/ ~Walkable(GoalCell)) => raw = <<>>

\* What the search does guarantee: empty for a start or goal outside the grid, for
\* an unwalkable goal, and for a Water goal that is not also the start cell.
C5_EmptyUnlessStartIsWalkableWaterGoal ==
    Searched =>
        IF ~InGrid(StartCell) \/ ~InGrid(GoalCell) THEN raw = <<>>
        ELSE /\ ~Walkable(GoalCell) => raw = <<>>
             /\ (Kind(GoalCell) = WATER /\ StartCell # GoalCell) => raw = <<>>

(***************************************************************************)
(* C6. findPath returns an empty sequence whenever the start cell is       *)
(* unwalkable (so from every cell of a block of cells marked unwalkable).  *)
(***************************************************************************)
C6_EmptyForUnwalkableStart ==
    (Searched /\ InGrid(StartCell) /\ ~Walkable(StartCell)) => raw = <<>>

(***************************************************************************)
(* C7. findPathSmooth returns a subsequence of what findPath returns for   *)
(* the same arguments: same first and last waypoint, no longer than the    *)
(* raw path, empty exactly when the raw path is empty, and every waypoint  *)
(* it drops is collinear (zero cross product of the two connecting         *)
(* segments) with the waypoints before and after it in the raw path.       *)
(***************************************************************************)
\* sub is seq with some elements left out.
RECURSIVE IsSubsequence(_, _)
IsSubsequence(sub, seq) ==
    IF Len(sub) = 0 THEN TRUE
    ELSE IF Len(seq) = 0 THEN FALSE
    ELSE IF Head(sub) = Head(seq) THEN IsSubsequence(Tail(sub), Tail(seq))
    ELSE IsSubsequence(sub, Tail(seq))

Cross(p, q, r) == (q[1] - p[1]) * (r[2] - q[2]) - (q[2] - p[2]) * (r[1] - q[1])

Waypoints(path) == {path[i] : i \in 1..Len(path)}

C7_SmoothIsCollinearSubsequence ==
    lastCall.op = "findPathSmooth" =>
        /\ raw = findPath(grid, lastCall.args[1], lastCall.args[2],
                          lastCall.args[3], lastCall.args[4]).ret
        /\ IsSubsequence(result, raw)
        /\ Len(result) <= Len(raw)
        /\ (result = <<>>) <=> (raw = <<>>)
        /\ raw # <<>> => result[1] = raw[1] /\ result[Len(result)] = raw[Len(raw)]
        /\ \A i \in 2..(Len(raw) - 1) :
              raw[i] \notin Waypoints(result) => Cross(raw[i - 1], raw[i], raw[i + 1]) = 0

\* findPathSmooth has dropped a collinear waypoint and kept a turn.
C7_Witness ==
    /\ lastCall.op = "findPathSmooth"
    /\ Len(result) < Len(raw)
    /\ \E i \in 2..(Len(raw) - 1) :
          raw[i] \in Waypoints(result) /\ Cross(raw[i - 1], raw[i], raw[i + 1]) # 0

(***************************************************************************)
(* C8. After markBuildingBlocked(worldX, worldY, widthPx, heightPx) every  *)
(* in-range cell whose centre lies in the rectangle                        *)
(* [worldX - widthPx/2, worldX + widthPx/2] x                              *)
(* [worldY - heightPx/2, worldY + heightPx/2] is unwalkable; the parts of  *)
(* the rectangle outside the grid are ignored (the grid keeps its shape).  *)
(***************************************************************************)
\* The centre of cell c lies in the rectangle (coordinates doubled, so that the
\* half widths stay whole numbers).
CentreInBox(c, worldX, worldY, widthPx, heightPx) ==
    /\ 2 * worldX - widthPx <= 2 * Centre(c)[1] /\ 2 * Centre(c)[1] <= 2 * worldX + widthPx
    /\ 2 * worldY - heightPx <= 2 * Centre(c)[2] /\ 2 * Centre(c)[2] <= 2 * worldY + heightPx

GridShapeKept ==
    /\ DOMAIN grid = 0..(gridHeight - 1)
    /\ \A y \in DOMAIN grid : DOMAIN grid[y] = 0..(gridWidth - 1)

C8_CentresInBoxAreBlocked ==
    lastCall.op = "markBuildingBlocked" =>
        /\ \A c \in Cells :
              CentreInBox(c, lastCall.args[1], lastCall.args[2],
                          lastCall.args[3], lastCall.args[4]) => ~Walkable(c)
        /\ GridShapeKept

\* A building was marked whose box sticks out of the grid on the left and at the
\* top and holds the centres of two cells of the grid.
C8_Witness ==
    /\ lastCall.op = "markBuildingBlocked"
    /\ 2 * lastCall.args[1] - lastCall.args[3] < 0
    /\ 2 * lastCall.args[2] - lastCall.args[4] < 0
    /\ Cardinality({c \in Cells :
            CentreInBox(c, lastCall.args[1], lastCall.args[2],
                        lastCall.args[3], lastCall.args[4])}) = 2

(***************************************************************************)
(* C9. markBuildingBlocked is cumulative and idempotent: repeating a call  *)
(* leaves the grid as after the first call, a call never turns an          *)
(* unwalkable cell walkable, and after the call the unwalkable cells are   *)
(* the previously unwalkable cells plus the covered cell range, whatever   *)
(* the order of two calls (the other call being one of four buildings at   *)
(* the corner and at the middle of the map).                               *)
(***************************************************************************)
Unwalkable(g) == {c \in Cells : ~g[c[2]][c[1]].walkable}

Mark(g, box) == markBuildingBlocked(g, box[1], box[2], box[3], box[4])

C9_MarkStep ==
    lastCall'.op = "markBuildingBlocked" =>
        /\ Unwalkable(grid) \subseteq Unwalkable(grid')
        /\ Unwalkable(grid') =
              Unwalkable(grid) \cup Covered(lastCall'.args[1], lastCall'.args[2],
                                            lastCall'.args[3], lastCall'.args[4])
        /\ Mark(grid', lastCall'.args) = grid'
        /\ \A site \in {Centre(<<0, 0>>), Centre(<<1, 1>>)}, size \in Footprints :
              LET other == <<site[1], site[2], size[1], size[2]>>
              IN  Mark(Mark(grid, other), lastCall'.args) = Mark(grid', other)

C9_MarkIsCumulativeIdempotent == [][C9_MarkStep]_vars

\* Two buildings have been marked, the second over cells the first had blocked
\* and over cells it had not.
C9_Witness ==
    /\ lastCall.op = "markBuildingBlocked"
    /\ nOps = 2
    /\ LET last == Covered(lastCall.args[1], lastCall.args[2],
                           lastCall.args[3], lastCall.args[4])
       IN  /\ blocked \ last # {}
           /\ Unwalkable(grid) = blocked
           /\ Cardinality(blocked) < Cardinality(Cells)

(***************************************************************************)
(* C10. Once markBuildingBlocked has made a cell unwalkable, the cell      *)
(* stays unwalkable after any later setWalkable, setTerrainKind,           *)
(* markBuildingBlocked, findPath or findPathSmooth call.                   *)
(***************************************************************************)
C10_MarkedStaysUnwalkable == \A c \in blocked : ~Walkable(c)

\* C10 as the program has it: a cell markBuildingBlocked has made unwalkable
\* stays unwalkable through every later call but setWalkable(cell, true) and
\* setTerrainLevel(cell, a level other than Water) on that very cell, which make
\* it walkable again.
Unmarks(call, c) ==
    \/ call.op = "setWalkable" /\ call.args[1] = c[1] /\ call.args[2] = c[2] /\ call.args[3]
    \/ /\ call.op = "setTerrainLevel" /\ call.args[1] = c[1] /\ call.args[2] = c[2]
       /\ call.args[3] # WATER

C10_UnmarkedOnlyBySetters ==
    [][\A c \in blocked :
          ~Walkable(c) =>
              (grid'[c[2]][c[1]].walkable <=> Unmarks(lastCall', c))]_vars

\* A search has found a path after a building was marked, and every cell the
\* building blocked is still unwalkable.
C10_Witness ==
    /\ Searched
    /\ blocked # {}
    /\ \A c \in blocked : ~Walkable(c)
    /\ raw # <<>>

(***************************************************************************)
(* C11. setTerrainLevel(col, row, kind) on a cell of the grid stores kind, *)
(* sets the cell's walkable flag to (kind is not Water) and changes no     *)
(* other cell; setWalkable(col, row, b) on a cell of the grid sets only    *)
(* that cell's walkable flag and leaves its kind; either call with         *)
(* (col, row) outside the grid changes nothing.                            *)
(***************************************************************************)
\* Cell c is the same node before and after the step, but for the fields named.
SameBut(c, fields) ==
    \A f \in DOMAIN grid[c[2]][c[1]] \ fields :
        grid'[c[2]][c[1]][f] = grid[c[2]][c[1]][f]

C11_SetterStep ==
    LET c == <<lastCall'.args[1], lastCall'.args[2]>>
    IN  /\ lastCall'.op = "setTerrainLevel" =>
              IF InGrid(c)
              THEN /\ grid'[c[2]][c[1]].terrainLevel = lastCall'.args[3]
                   /\ grid'[c[2]][c[1]].walkable = (lastCall'.args[3] # WATER)
                   /\ SameBut(c, {"terrainLevel", "walkable"})
                   /\ \A d \in Cells \ {c} : SameBut(d, {})
                   /\ DOMAIN grid' = DOMAIN grid
              ELSE grid' = grid
        /\ lastCall'.op = "setWalkable" =>
              IF InGrid(c)
              THEN /\ grid'[c[2]][c[1]].walkable = lastCall'.args[3]
                   /\ SameBut(c, {"walkable"})
                   /\ \A d \in Cells \ {c} : SameBut(d, {})
                   /\ DOMAIN grid' = DOMAIN grid
              ELSE grid' = grid

C11_SettersTouchOneCell == [][C11_SetterStep]_vars

\* The second call has given a cell of the grid the kind Water, which made it
\* unwalkable, while the first call left another cell unwalkable with its kind.
C11_Witness ==
    /\ lastCall.op = "setTerrainLevel"
    /\ nOps = 2
    /\ InGrid(<<lastCall.args[1], lastCall.args[2]>>)
    /\ Kind(<<lastCall.args[1], lastCall.args[2]>>) = WATER
    /\ ~Walkable(<<lastCall.args[1], lastCall.args[2]>>)
    /\ \E d \in Cells : ~Walkable(d) /\ Kind(d) # WATER

(***************************************************************************)
(* TerrainMap (src/unnamed/part_004) and the loading of a saved map        *)
(* (MenuScene.promptLoadMap; GameScene.create reads it).                   *)
(***************************************************************************)
MaxMapSize == 2     \* a TerrainMap has 1..MaxMapSize columns and rows
MaxDataLen == 2     \* saved data hold up to MaxDataLen rows of up to MaxDataLen cells

\* Values parsed from JSON carry their JavaScript type.
Num(n) == [type |-> "number", val |-> n]

Arr(items) == [type |-> "array", val |-> items]

JsonString == [type |-> "string", val |-> 0]

JsonNull == [type |-> "null", val |-> 0]

Undefined == [type |-> "undefined", val |-> 0]

\* The entities of saved data: { units, buildings }, a unit and a building being
\* { col, row, type } (a unit has a team too).
Entities(units, buildings) ==
    [type |-> "object", val |-> [units |-> units, buildings |-> buildings]]

\* array[i] of JavaScript, i counted from 0: undefined past the end.
JsIndex(array, i) ==
    IF i >= 0 /\ i < Len(array.val) THEN array.val[i + 1] ELSE Undefined

\* new TerrainMap(cols, rows): every cell Flat with variation 0.
TerrainMapNew(cols, rows) ==
    [width |-> cols, height |-> rows,
     cells |-> [r \in 0..(rows - 1) |->
                  [c \in 0..(cols - 1) |-> [level |-> FLAT, variation |-> 0]]],
     made |-> TRUE]

\* The null that get returns; a cell is returned as <<cell>>.
TmNull == <<>>

get(map, row, col) ==
    IF row < 0 \/ row >= map.height \/ col < 0 \/ col >= map.width
    THEN TmNull
    ELSE <<map.cells[row][col]>>

set(map, row, col, level, variation) ==
    IF row >= 0 /\ row < map.height /\ col >= 0 /\ col < map.width
    THEN [map EXCEPT !.cells[row][col] = [level |-> level, variation |-> variation]]
    ELSE map

\* getLevel answering Flat where there is no cell.
getLevel_DefaultFlat(map, row, col) ==
    IF get(map, row, col) = TmNull THEN FLAT ELSE get(map, row, col)[1].level

\* this.get(row, col)?.level ?? TerrainLevel.WATER
getLevel(map, row, col) ==
    IF get(map, row, col) = TmNull THEN WATER ELSE get(map, row, col)[1].level

\* toData writing cells[c][r] for cells[r][c].
toData_Transposed(map) ==
    [width |-> Num(map.width), height |-> Num(map.height),
     cells |-> Arr([r \in 1..map.height |->
                      Arr([c \in 1..map.width |-> Num(getLevel(map, c - 1, r - 1))])]),
     entities |-> Entities(<<>>, <<>>), made |-> TRUE]

\* toData(): width, height, the level of every cell, row by row, and the
\* entities, which are { units: [], buildings: [] } when none are passed.
toData(map) ==
    [width |-> Num(map.width), height |-> Num(map.height),
     cells |-> Arr([r \in 1..map.height |->
                      Arr([c \in 1..map.width |-> Num(getLevel(map, r - 1, c - 1))])]),
     entities |-> Entities(<<>>, <<>>), made |-> TRUE]

\* validLevel without the comparison with TerrainLevel.RAMP.
validLevel_NoRamp(level) ==
    /\ level.type = "number"
    /\ level.val \in {WATER, FLAT, ELEVATED_1, ELEVATED_2}

\* level === WATER || level === FLAT || ... || level === RAMP
validLevel(level) ==
    /\ level.type = "number"
    /\ level.val \in {WATER, FLAT, ELEVATED_1, ELEVATED_2, RAMP}

\* fromData(data): a new map of the declared size; each cell of a row that is an
\* array, up to the shorter of width and the row's length, is set to its level
\* (Flat when the level is not valid) with variation 0; the others stay as made.
fromData(data) ==
    [width |-> data.width.val, height |-> data.height.val,
     cells |-> [r \in 0..(data.height.val - 1) |->
                  [c \in 0..(data.width.val - 1) |->
                     IF JsIndex(data.cells, r).type # "array"
                        \/ c >= Len(JsIndex(data.cells, r).val)
                     THEN TerrainMapNew(data.width.val, data.height.val).cells[r][c]
                     ELSE [level |-> IF validLevel(JsIndex(JsIndex(data.cells, r), c))
                                     THEN JsIndex(JsIndex(data.cells, r), c).val
                                     ELSE FLAT,
                           variation |-> 0]]],
     made |-> TRUE]

\* Is every row among the first `rows` an array of `width` numbers?
RowsAreValid(cells, rows, width) ==
    \A r \in 0..(rows - 1) :
        /\ JsIndex(cells, r).type = "array"
        /\ Len(JsIndex(cells, r).val) = width
        /\ \A c \in 0..(Len(JsIndex(cells, r).val) - 1) :
              JsIndex(JsIndex(cells, r), c).type = "number"

\* isValidSavedMapData without the comparison of each row's length with width.
isValidSavedMapData_AnyRowLength(obj) ==
    /\ obj.width.type = "number" /\ obj.height.type = "number"
    /\ obj.cells.type = "array" /\ Len(obj.cells.val) = obj.height.val
    /\ \A r \in 0..(obj.height.val - 1) :
          /\ JsIndex(obj.cells, r).type = "array"
          /\ \A c \in 0..(Len(JsIndex(obj.cells, r).val) - 1) :
                JsIndex(JsIndex(obj.cells, r), c).type = "number"

\* MenuScene.isValidSavedMapData
isValidSavedMapData(obj) ==
    /\ obj.width.type = "number" /\ obj.height.type = "number"
    /\ obj.cells.type = "array" /\ Len(obj.cells.val) = obj.height.val
    /\ RowsAreValid(obj.cells, obj.height.val, obj.width.val)

\* Sequences over S of length 0..n.
SeqsUpTo(S, n) == UNION {[1..k -> S] : k \in 0..n}

\* Cells of saved data: Water, Ramp, a number that is no level, and a string.
JsonCells == {Num(WATER), Num(RAMP), Num(4), JsonString}

\* Rows of saved data: arrays of up to MaxDataLen cells, and null.
JsonRows == {Arr(row) : row \in SeqsUpTo(JsonCells, MaxDataLen)} \cup {JsonNull}

\* Saved maps as a file can hold them: declared sizes 1..MaxMapSize, up to
\* MaxDataLen rows whatever the declared height, and no entities.
SavedMaps ==
    {[width |-> Num(w), height |-> Num(h), cells |-> Arr(rows), entities |-> Undefined,
      made |-> TRUE] :
        w \in 1..MaxMapSize, h \in 1..MaxMapSize, rows \in SeqsUpTo(JsonRows, MaxDataLen)}

\* <<row, col>> arguments of get, getLevel and set: the first and the last cell
\* of the largest map, and a place off each of its four sides.
Places ==
    {<<0, 0>>, <<MaxMapSize - 1, MaxMapSize - 1>>,
     <<-1, 0>>, <<0, -1>>, <<MaxMapSize, 0>>, <<0, MaxMapSize>>}

\* The variation set is called with (fromData and the constructor give 0).
Variations == {3}

\* The data fromData is called with: what a file holds when there is no map yet,
\* what toData returned afterwards.
LoadInputs ==
    IF lastCall.op = "new" THEN SavedMaps
    ELSE IF saved.made THEN {saved} ELSE {}

TmConstruct(cols, rows) ==
    /\ lastCall.op = "new"
    /\ terrain' = TerrainMapNew(cols, rows)
    /\ lastCall' = [op |-> "TerrainMap", args |-> <<cols, rows>>]
    /\ result' = <<>>
    /\ UNCHANGED <<grid, nOps, nSearches, raw, blocked, saved, queue, gold, search, registry, gridWidth, gridHeight>>

TmFromData(data) ==
    /\ terrain' = fromData(data)
    /\ lastCall' = [op |-> "fromData", args |-> <<data>>]
    /\ result' = <<>>
    /\ saved' = NoData
    /\ UNCHANGED <<grid, nOps, nSearches, raw, blocked, queue, gold, search, registry, gridWidth, gridHeight>>

\* What a file read after another holds (the first is any of SavedMaps): a map
\* of one Water cell, one whose only row is too long, a map of two rows, and
\* that map with the entities of a tower on its Ramp and a building of no known
\* type.
LaterFiles ==
    {[width |-> Num(1), height |-> Num(1), cells |-> Arr(<<Arr(<<Num(WATER)>>)>>),
      entities |-> Undefined, made |-> TRUE],
     [width |-> Num(1), height |-> Num(1), cells |-> Arr(<<Arr(<<Num(WATER), Num(RAMP)>>)>>),
      entities |-> Undefined, made |-> TRUE],
     [width |-> Num(2), height |-> Num(2),
      cells |-> Arr(<<Arr(<<Num(RAMP), Num(4)>>), Arr(<<Num(WATER), Num(WATER)>>)>>),
      entities |-> Undefined, made |-> TRUE],
     [width |-> Num(2), height |-> Num(2),
      cells |-> Arr(<<Arr(<<Num(RAMP), Num(4)>>), Arr(<<Num(WATER), Num(WATER)>>)>>),
      entities |-> Entities(<<>>, <<[col |-> 0, row |-> 0, type |-> "tower"],
                                    [col |-> 1, row |-> 1, type |-> "farm"]>>),
      made |-> TRUE]}

\* MenuScene.promptLoadMap, reader.onload on a parsed file: a file that is no
\* valid saved map shows the error; a valid one is set in the registry as
\* savedMapData and the game scene is started, whose create runs later.  Until
\* then another file can be read.
TmLoadMap(parsed) ==
    /\ lastCall.op \in {"new", "loadMap"}
    /\ IF isValidSavedMapData(parsed)
       THEN registry' = parsed /\ result' = "GameScene"
       ELSE registry' = registry /\ result' = "Invalid map format"
    /\ lastCall' = [op |-> "loadMap", args |-> <<parsed>>]
    /\ UNCHANGED <<grid, nOps, nSearches, raw, blocked, terrain, saved, queue, gold, search,
                   gridWidth, gridHeight>>

TmSet(place, level, variation) ==
    /\ terrain.made
    /\ nOps < MaxOps
    /\ terrain' = set(terrain, place[1], place[2], level, variation)
    /\ nOps' = nOps + 1
    /\ lastCall' = [op |-> "set", args |-> <<place[1], place[2], level, variation>>]
    /\ result' = <<>>
    /\ UNCHANGED <<grid, nSearches, raw, blocked, saved, queue, gold, search, registry, gridWidth, gridHeight>>

TmGet(place) ==
    /\ terrain.made
    /\ nSearches < MaxSearches
    /\ result' = get(terrain, place[1], place[2])
    /\ nSearches' = nSearches + 1
    /\ lastCall' = [op |-> "get", args |-> <<place[1], place[2]>>]
    /\ UNCHANGED <<grid, nOps, raw, blocked, terrain, saved, queue, gold, search, registry, gridWidth, gridHeight>>

TmGetLevel(place) ==
    /\ terrain.made
    /\ nSearches < MaxSearches
    /\ result' = getLevel(terrain, place[1], place[2])
    /\ nSearches' = nSearches + 1
    /\ lastCall' = [op |-> "getLevel", args |-> <<place[1], place[2]>>]
    /\ UNCHANGED <<grid, nOps, raw, blocked, terrain, saved, queue, gold, search, registry, gridWidth, gridHeight>>

TmToData ==
    /\ terrain.made
    /\ saved' = toData(terrain)
    /\ result' = saved'
    /\ lastCall' = [op |-> "toData", args |-> <<>>]
    /\ UNCHANGED <<grid, nOps, nSearches, raw, blocked, terrain, queue, gold, search, registry, gridWidth, gridHeight>>

(***************************************************************************)
(* C12. Outside [0, height) x [0, width) get returns null, getLevel        *)
(* returns Water and set changes no cell; inside, get and getLevel after   *)
(* set(row, col, kind, variation) return that kind and variation, and      *)
(* every other cell is unchanged.                                          *)
(***************************************************************************)
InMap(map, row, col) == row \in 0..(map.height - 1) /\ col \in 0..(map.width - 1)

MapCells(map) == {<<r, c>> : r \in 0..(map.height - 1), c \in 0..(map.width - 1)}

C12_AccessStep ==
    LET row == lastCall'.args[1]
        col == lastCall'.args[2]
    IN  /\ lastCall'.op = "get" /\ ~InMap(terrain, row, col) => result' = TmNull
        /\ lastCall'.op = "getLevel" /\ ~InMap(terrain, row, col) => result' = WATER
        /\ lastCall'.op = "set" /\ ~InMap(terrain, row, col) => terrain' = terrain
        /\ lastCall'.op = "set" /\ InMap(terrain, row, col) =>
              /\ get(terrain', row, col) =
                    <<[level |-> lastCall'.args[3], variation |-> lastCall'.args[4]]>>
              /\ getLevel(terrain', row, col) = lastCall'.args[3]
              /\ terrain'.width = terrain.width /\ terrain'.height = terrain.height
              /\ \A p \in MapCells(terrain) \ {<<row, col>>} :
                    get(terrain', p[1], p[2]) = get(terrain, p[1], p[2])

C12_RangeCheckedAccess == [][C12_AccessStep]_vars

\* getLevel has answered Water for a place off a map whose cells are all land,
\* one of them set to Ramp with variation 3.
C12_Witness ==
    /\ lastCall.op = "getLevel"
    /\ ~InMap(terrain, lastCall.args[1], lastCall.args[2])
    /\ result = WATER
    /\ \A p \in MapCells(terrain) : terrain.cells[p[1]][p[2]].level # WATER
    /\ \E p \in MapCells(terrain) :
          terrain.cells[p[1]][p[2]] = [level |-> RAMP, variation |-> 3]

(***************************************************************************)
(* C13. For every map m made by the constructor or fromData and any set    *)
(* calls, fromData(toData(m)) has m's width and height and m's level in    *)
(* every cell.                                                             *)
(***************************************************************************)
SameLevels(m1, m2) ==
    /\ m1.width = m2.width /\ m1.height = m2.height
    /\ \A p \in MapCells(m2) : getLevel(m1, p[1], p[2]) = getLevel(m2, p[1], p[2])

C13_RoundTripStep ==
    /\ terrain.made => SameLevels(fromData(toData(terrain)), terrain)
    /\ (lastCall'.op = "fromData" /\ terrain.made /\ lastCall'.args[1] = toData(terrain)) =>
          SameLevels(terrain', terrain)

C13_RoundTripKeepsLevels == [][C13_RoundTripStep]_vars

\* A map of two rows and one column, whose cells set has given different levels
\* and variation 3, has been saved and loaded back: the variation is back to 0.
C13_Witness ==
    /\ lastCall.op = "fromData"
    /\ nOps = 2
    /\ terrain.width = 1 /\ terrain.height = 2
    /\ terrain.cells[0][0].level = ELEVATED_2
    /\ terrain.cells[1][0].level = WATER
    /\ terrain.cells[0][0].variation = 0

(***************************************************************************)
(* C14. fromData never fails on a cell value: a cell whose saved value is  *)
(* none of the five levels is loaded as Flat, a cell whose value is one of *)
(* them is loaded with that level.                                         *)
(***************************************************************************)
\* The saved value of cell <<row, col>> in data (undefined where data has none).
SavedValue(data, p) ==
    IF JsIndex(data.cells, p[1]).type = "array"
    THEN JsIndex(JsIndex(data.cells, p[1]), p[2])
    ELSE Undefined

IsLevel(value) == value.type = "number" /\ value.val \in TerrainLevel

C14_LenientLoad ==
    lastCall.op = "fromData" =>
        /\ terrain.made
        /\ terrain.width = lastCall.args[1].width.val
        /\ terrain.height = lastCall.args[1].height.val
        /\ \A p \in MapCells(terrain) :
              IF IsLevel(SavedValue(lastCall.args[1], p))
              THEN getLevel(terrain, p[1], p[2]) = SavedValue(lastCall.args[1], p).val
              ELSE getLevel(terrain, p[1], p[2]) = FLAT

\* Data whose first row holds the number 4 and a string have been loaded into a
\* map of two columns: both cells are Flat.
C14_Witness ==
    /\ lastCall.op = "fromData"
    /\ terrain.width = 2
    /\ SavedValue(lastCall.args[1], <<0, 0>>) = Num(4)
    /\ SavedValue(lastCall.args[1], <<0, 1>>).type = "string"
    /\ terrain.cells[0][0].level = FLAT /\ terrain.cells[0][1].level = FLAT

(***************************************************************************)
(* C15. Loading saved data whose declared width and height do not match    *)
(* the shape of cells (a wrong number of rows, or a row whose length is    *)
(* not width) is rejected: the load fails and no TerrainMap is made from   *)
(* them.  The check of the shape is MenuScene.isValidSavedMapData;         *)
(* TerrainMap.fromData has none (part_004:46-63).  As amended: a file of   *)
(* such data read by the menu shows the error and leaves the registry and  *)
(* the map as they are, the registry never holds such data and the create  *)
(* of the game scene never makes a map of them; fromData called with such  *)
(* data, which the menu would refuse, returns a map of the declared width  *)
(* and height whose cells without a saved value are Flat with variation 0. *)
(***************************************************************************)
ShapeMismatch(data) ==
    \/ Len(data.cells.val) # data.height.val
    \/ \E r \in 1..Len(data.cells.val) :
          \/ data.cells.val[r].type # "array"
          \/ Len(data.cells.val[r].val) # data.width.val

\* C15 as stated: no load of data of a wrong shape, by the menu or by fromData,
\* makes a map.
C15_MismatchIsRejected ==
    /\ (lastCall.op = "loadMap" /\ ShapeMismatch(lastCall.args[1])) =>
          result = "Invalid map format" /\ ~terrain.made
    /\ (lastCall.op = "fromData" /\ ShapeMismatch(lastCall.args[1])) => ~terrain.made

\* C15 as amended: the menu refuses data of a wrong shape and the game scene
\* never has them; fromData pads and truncates them to the declared size.
C15_MenuRejectsFromDataPads ==
    /\ (lastCall.op = "loadMap" /\ ShapeMismatch(lastCall.args[1])) =>
          /\ result = "Invalid map format"
          /\ ~(registry.made /\ registry = lastCall.args[1])
          /\ ~terrain.made
    /\ registry.made => ~ShapeMismatch(registry)
    /\ lastCall.op = "create" => ~ShapeMismatch(lastCall.args[1])
    /\ (lastCall.op = "fromData" /\ ShapeMismatch(lastCall.args[1])) =>
          /\ ~isValidSavedMapData(lastCall.args[1])
          /\ terrain.made
          /\ terrain.width = lastCall.args[1].width.val
          /\ terrain.height = lastCall.args[1].height.val
          /\ \A p \in MapCells(terrain) :
                SavedValue(lastCall.args[1], p) = Undefined =>
                    terrain.cells[p[1]][p[2]] = [level |-> FLAT, variation |-> 0]

\* The file declares one column and as many rows as it has, all of numbers, but
\* one of its rows has two cells; the error was shown and no map was made, and
\* fromData of the same data is a map of one column.
C15_Witness ==
    /\ lastCall.op = "loadMap"
    /\ lastCall.args[1].width.val = 1
    /\ Len(lastCall.args[1].cells.val) = lastCall.args[1].height.val
    /\ \A r \in 1..Len(lastCall.args[1].cells.val) :
          /\ lastCall.args[1].cells.val[r].type = "array"
          /\ \A c \in 1..Len(lastCall.args[1].cells.val[r].val) :
                lastCall.args[1].cells.val[r].val[c].type = "number"
    /\ \E r \in 1..Len(lastCall.args[1].cells.val) :
          Len(lastCall.args[1].cells.val[r].val) = 2
    /\ result = "Invalid map format"
    /\ ~registry.made
    /\ ~terrain.made
    /\ fromData(lastCall.args[1]).made
    /\ fromData(lastCall.args[1]).width = 1
    /\ fromData(lastCall.args[1]).height = lastCall.args[1].height.val

(***************************************************************************)
(* The terrain generator (src/unnamed/part_006): SeededRandom.             *)
(*                                                                         *)
(* The state of the generator is an integer of 0..2^31-1.  JavaScript      *)
(* computes state * 1103515245 + 12345 in doubles, which keep 53 bits, and *)
(* takes the low 31 bits of the result: the bits the double has lost are   *)
(* part of what next() does, so the product is rounded here as a double    *)
(* rounds it, on the low 31 bits, which is all that is kept.               *)
(***************************************************************************)
INT_MAX == 2147483647                 \* 0x7fffffff

\* How many bits the double of state * 1103515245 has lost: one for each of
\* 2^53, 2^54, ... 2^61 the product reaches, by the least states that reach them.
LostBits(state) ==
    Cardinality({b \in {8162279, 16324558, 32649116, 65298232, 130596464, 261192927,
                        522385853, 1044771706, 2089543412} : state >= b})

\* (state * 1103515245) mod 2^31, in parts of 16 bits: 1103515245 = 16838 * 2^16 + 20077.
MulLow(state) ==
    LET hi == state \div 65536
        lo == state % 65536
    IN  ((((lo * 20077) \div 65536) + (((hi * 20077) % 32768) + ((lo * 16838) % 32768)))
            % 32768) * 65536
        + ((lo * 20077) % 65536)

\* low, the low 31 bits of a number, after the number is rounded to a multiple of
\* 2^e, ties to the even multiple.
RoundLowBits(low, e) ==
    IF e = 0 THEN low
    ELSE IF (low % (2 ^ e)) * 2 > 2 ^ e
            \/ ((low % (2 ^ e)) * 2 = 2 ^ e /\ (low \div (2 ^ e)) % 2 = 1)
    THEN (((low \div (2 ^ e)) + 1) % (2 ^ (31 - e))) * (2 ^ e)
    ELSE (low \div (2 ^ e)) * (2 ^ e)

\* this.state = (this.state * 1103515245 + 12345) & 0x7fffffff; the sum is
\* (low + 12345) mod 2^31 for the low bits of the product.
NextState(state) ==
    LET low == RoundLowBits(MulLow(state), LostBits(state))
    IN  RoundLowBits(IF low > INT_MAX - 12345 THEN low - (INT_MAX - 12345) - 1
                     ELSE low + 12345,
                     LostBits(state))

\* Math.floor(x * k) for x = state / 0x7fffffff and an integer k >= 0, from
\* state * k = hi * 2^16 + lo.
FloorTimes(state, k) ==
    LET hi == (state \div 65536) * k + (((state % 65536) * k) \div 65536)
        lo == ((state % 65536) * k) % 65536
    IN  (hi \div 32768)
        + (IF (hi % 32768) * 65536 + lo >= INT_MAX - (hi \div 32768) THEN 1 ELSE 0)

\* int(min, max) when next() has left the generator in `state`:
\* Math.floor(this.next() * (max - min + 1)) + min, for integers min and max;
\* max - min + 1 may be negative.
RngInt(state, min, max) ==
    IF max - min + 1 >= 0
    THEN FloorTimes(state, max - min + 1) + min
    ELSE IF state = INT_MAX \/ state = 0
    THEN min - FloorTimes(state, min - max - 1)
    ELSE min - FloorTimes(state, min - max - 1) - 1

\* this.next() < tenths / 10 for tenths 3, 6, 8 and 10, by the state next() has
\* left: the least states for which it fails.
Below(state, tenths) ==
    state < (CASE tenths = 3 -> 644245095
               [] tenths = 6 -> 1288490189
               [] tenths = 8 -> 1717986918
               [] tenths = 10 -> INT_MAX)

(***************************************************************************)
(* The terrain generator (src/unnamed/part_006): generateTerrain.          *)
(*                                                                         *)
(* A generation in progress is a record: the map, the SeededRandom (state; *)
(* whole says that the state is an integer, and when it is not, after is   *)
(* the state its first next() leaves), thrown (a TypeError has ended the   *)
(* call), the regions placed and the attempts each requested region took,  *)
(* the lakes begun, what smoothTerrain has met (smoothed: for each cell it  *)
(* has visited, the level of the cell, its neighbours and its level        *)
(* afterwards),                                                            *)
(* and the values Math.random() returns, as Math.floor(Math.random() * 4), *)
(* with the number of them used so far.                                    *)
(*                                                                         *)
(* A seed is [whole |-> TRUE, value |-> n] for the integer n, and          *)
(* [whole |-> FALSE, value |-> s] for a number that is no integer, s being *)
(* the state the first next() leaves from it: (seed * 1103515245 + 12345)  *)
(* is truncated before & 0x7fffffff.                                       *)
(***************************************************************************)
Whole(n) == [whole |-> TRUE, value |-> n]

Fraction(s) == [whole |-> FALSE, value |-> s]

\* waterRatio is held in hundredths.
DEFAULT_OPTIONS ==
    [waterRatio |-> 15, elevatedRegions |-> 4, createLakes |-> TRUE,
     createCoast |-> TRUE, seed |-> Whole(0)]

\* { ...DEFAULT_OPTIONS, ...options }
mergeOptions(options) ==
    [k \in DOMAIN DEFAULT_OPTIONS |->
        IF k \in DOMAIN options THEN options[k] ELSE DEFAULT_OPTIONS[k]]

\* opts.seed is truthy
seeded(seed) == ~seed.whole \/ seed.value # 0

\* new SeededRandom(opts.seed || Math.random() * 100000) and new TerrainMap(cols, rows).
\* Math.random() * 100000 is not an integer (and were it 0, the state would be
\* Date.now()): the state its first next() leaves is `first`, any value of 31 bits.
SeededRandomNew(cols, rows, seed, first, randoms) ==
    [map |-> TerrainMapNew(cols, rows),
     state |-> IF seed.whole THEN seed.value ELSE 0,
     whole |-> seed.whole /\ seed.value # 0,
     after |-> IF seeded(seed) THEN seed.value ELSE first,
     thrown |-> FALSE, regions |-> <<>>, attempts |-> <<>>, lakes |-> 0,
     smoothed |-> {}, randoms |-> randoms, used |-> 0]

\* next(): the generation after the call; the value returned is state / 0x7fffffff.
next(g) ==
    IF g.whole THEN [g EXCEPT !.state = NextState(@)]
    ELSE [g EXCEPT !.state = g.after, !.whole = TRUE]

\* for (let c = 0; c < cols; c++) map.set(r, c, TerrainLevel.FLAT, rng.int(0, 3)),
\* from c on
RECURSIVE fillRow(_, _, _)
fillRow(g, r, c) ==
    IF c >= g.map.width THEN g
    ELSE LET drawn == next(g)
         IN  fillRow([drawn EXCEPT !.map = set(@, r, c, FLAT, RngInt(drawn.state, 0, 3))],
                     r, c + 1)

\* Start with all flat terrain: for (let r = 0; r < rows; r++), from r on
RECURSIVE fillFlat(_, _)
fillFlat(g, r) ==
    IF r >= g.map.height THEN g ELSE fillFlat(fillRow(g, r, 0), r + 1)

(***************************************************************************)
(* createElevatedRegions                                                   *)
(***************************************************************************)
\* Check overlap with existing regions
overlapsAny(regions, startC, startR, w, h) ==
    \E i \in 1..Len(regions) :
        /\ startC < regions[i].c + regions[i].w + 2
        /\ startC + w + 2 > regions[i].c
        /\ startR < regions[i].r + regions[i].h + 2
        /\ startR + h + 2 > regions[i].r

\* waterCount > (w * h) * 0.5
tooMuchWater(map, startC, startR, w, h) ==
    2 * Cardinality({p \in (startR..(startR + h - 1)) \X (startC..(startC + w - 1)) :
                        getLevel(map, p[1], p[2]) = WATER})
        > w * h

\* One cell of the region: water is passed over; rng.next() < prob, with prob 0.6
\* on the border of the region and 1.0 inside, then map.set(r, c, level, rng.int(0, 3)).
raiseCell(g, r, c, level, dist) ==
    IF getLevel(g.map, r, c) = WATER THEN g
    ELSE LET tested == next(g)
             drawn == next(tested)
         IN  IF Below(tested.state, IF dist = 0 THEN 6 ELSE 10)
             THEN [drawn EXCEPT !.map = set(@, r, c, level, RngInt(drawn.state, 0, 3))]
             ELSE tested

\* for (let c = startC; c < startC + w; c++), from c on, each cell with its
\* edgeDist
RECURSIVE raiseRow(_, _, _, _, _)
raiseRow(g, region, level, r, c) ==
    IF c >= region.c + region.w \/ g.thrown THEN g
    ELSE raiseRow(raiseCell(g, r, c, level,
                            Min(Min(r - region.r, c - region.c),
                                Min(region.r + region.h - 1 - r,
                                    region.c + region.w - 1 - c))),
                  region, level, r, c + 1)

\* Create irregular elevated region: for (let r = startR; r < startR + h; r++),
\* from r on
RECURSIVE raiseRegion(_, _, _, _)
raiseRegion(g, region, level, r) ==
    IF r >= region.r + region.h \/ g.thrown THEN g
    ELSE raiseRegion(raiseRow(g, region, level, r, region.c), region, level, r + 1)

\* A valid candidate: it is pushed and raised, after `attempts` failed attempts,
\* to the level rng.bool(0.3) ? ELEVATED_2 : ELEVATED_1.
placeRegion(g, region, attempts) ==
    LET drawn == next(g)
    IN  raiseRegion([drawn EXCEPT !.regions = Append(@, region),
                                  !.attempts = Append(@, attempts)],
                    region,
                    IF Below(drawn.state, 3) THEN ELEVATED_2 ELSE ELEVATED_1,
                    region.r)

\* One attempt: w, h, startC and startR, each by a next(); a candidate that is
\* not valid leaves the map and the regions as they are.
tryPlace(g, attempts) ==
    LET w == RngInt(next(g).state, 4, (g.map.width * 15) \div 100)
        gH == next(next(g))
        h == RngInt(gH.state, 4, (g.map.height * 15) \div 100)
        gC == next(gH)
        startC == RngInt(gC.state, 2, g.map.width - w - 2)
        gR == next(gC)
        startR == RngInt(gR.state, 2, g.map.height - h - 2)
    IN  IF ~overlapsAny(g.regions, startC, startR, w, h)
           /\ ~tooMuchWater(g.map, startC, startR, w, h)
        THEN placeRegion(gR, [r |-> startR, c |-> startC, w |-> w, h |-> h], attempts)
        ELSE gR

\* while (attempts < 50), for the i-th region asked for: the loop breaks when
\* the region is placed, and a region that fails 50 times is left out.  The n
\* passes left are taken as the first n \div 2 and then the others, which follow
\* only if no region was placed; every pass that does not place one counts one
\* attempt.
RECURSIVE tryRegion(_, _, _, _)
tryRegion(g, attempts, i, n) ==
    IF Len(g.attempts) >= i THEN g
    ELSE IF n = 0 THEN (IF attempts >= 50 THEN [g EXCEPT !.attempts = Append(@, attempts)]
                        ELSE g)
    ELSE IF n = 1 THEN tryRegion(tryPlace(g, attempts), attempts + 1, i, 0)
    ELSE tryRegion(tryRegion(g, attempts, i, n \div 2), attempts + n \div 2, i, n - n \div 2)

RECURSIVE createElevatedRegions(_, _)
createElevatedRegions(g, numRegions) ==
    IF numRegions <= 0 THEN g
    ELSE createElevatedRegions(tryRegion(g, 0, Len(g.attempts) + 1, 50), numRegions - 1)

(***************************************************************************)
(* smoothTerrain                                                           *)
(***************************************************************************)
\* [up, down, left, right]
neighbors(map, r, c) ==
    <<getLevel(map, r - 1, c), getLevel(map, r + 1, c),
      getLevel(map, r, c - 1), getLevel(map, r, c + 1)>>

\* The neighbours of level l: sameCount, and counts.get(l) once all are counted.
countOf(nbrs, l) == Cardinality({i \in 1..4 : nbrs[i] = l})

\* The Map is walked in the order its keys were first set, and only a greater
\* count replaces the level chosen: the level chosen is the one of the first
\* neighbour whose count no neighbour exceeds.
maxLevel(nbrs) ==
    nbrs[CHOOSE i \in 1..4 :
            /\ \A j \in 1..4 : countOf(nbrs, nbrs[j]) <= countOf(nbrs, nbrs[i])
            /\ \A j \in 1..(i - 1) : countOf(nbrs, nbrs[j]) < countOf(nbrs, nbrs[i])]

\* One cell: map.set(r, c, maxLevel, Math.floor(Math.random() * 4)), the values of
\* randoms being taken in turn.
smoothCell(g, r, c) ==
    LET level == getLevel(g.map, r, c)
        nbrs == neighbors(g.map, r, c)
    IN  IF countOf(nbrs, level) <= 1 /\ maxLevel(nbrs) # level
        THEN [g EXCEPT !.map = set(@, r, c, maxLevel(nbrs),
                                   g.randoms[(g.used % Len(g.randoms)) + 1]),
                       !.used = @ + 1,
                       !.smoothed = @ \cup {<<level, nbrs, maxLevel(nbrs)>>}]
        ELSE [g EXCEPT !.smoothed = @ \cup {<<level, nbrs, level>>}]

\* for (let c = 1; c < width - 1; c++), from c on
RECURSIVE smoothRow(_, _, _)
smoothRow(g, r, c) ==
    IF c >= g.map.width - 1 THEN g ELSE smoothRow(smoothCell(g, r, c), r, c + 1)

\* One pass: for (let r = 1; r < height - 1; r++), from r on
RECURSIVE smoothPass(_, _)
smoothPass(g, r) ==
    IF r >= g.map.height - 1 THEN g ELSE smoothPass(smoothRow(g, r, 1), r + 1)

smoothTerrain(g) == smoothPass(smoothPass(g, 1), 1)

(***************************************************************************)
(* createCoastalEdges and carveWaterPath.  The bays start at                *)
(* rng.int(width * 0.2, width * 0.8), which is an integer only when width   *)
(* is a multiple of 5: the rows and columns of a bay are held in fifths of  *)
(* a cell (5 * row, 5 * col).                                               *)
(***************************************************************************)
\* One cell: noise = rng.next() * 0.4, then
\* if (rng.next() < prob * 0.8 + noise * 0.2) map.set(r, c, WATER), with
\* prob = 1 - distFromEdge / edgeDepth.  For the states s1 and s2 the two next()
\* leave, the test is s2 / M < (1 - dist / depth) * 0.8 + (s1 / M * 0.4) * 0.2,
\* M = 0x7fffffff, that is 25 * depth * s2 < 20 * (depth - dist) * M + 2 * depth * s1;
\* reach is the greatest s2 that passes it.  The doubles decide as the exact
\* numbers do unless both sides are equal, and of the states that follow one
\* another only 644670024 and 1425963136 make a tie the doubles take for less:
\* where dist is a fifth of depth.
coastCell(g, r, c, depth) ==
    LET distFromEdge == Min(Min(r, c), Min(g.map.height - 1 - r, g.map.width - 1 - c))
        noise == next(g)
        tested == next(noise)
        reach == 20 * (depth - distFromEdge) * (INT_MAX \div (25 * depth))
                 + 2 * depth * (noise.state \div (25 * depth))
                 + ((20 * (depth - distFromEdge) * (INT_MAX % (25 * depth))
                     + 2 * depth * (noise.state % (25 * depth)) - 1) \div (25 * depth))
    IN  IF distFromEdge >= depth THEN g
        ELSE IF tested.state <= reach
                \/ (noise.state = 644670024 /\ tested.state = 1425963136
                    /\ 5 * distFromEdge = depth)
        THEN [tested EXCEPT !.map = set(@, r, c, WATER, 0)]
        ELSE tested

\* for (let c = 0; c < width; c++), from c on
RECURSIVE coastRow(_, _, _, _)
coastRow(g, depth, r, c) ==
    IF c >= g.map.width THEN g ELSE coastRow(coastCell(g, r, c, depth), depth, r, c + 1)

\* Create irregular coastal edges: for (let r = 0; r < height; r++), from r on
RECURSIVE coastEdges(_, _, _)
coastEdges(g, depth, r) ==
    IF r >= g.map.height THEN g ELSE coastEdges(coastRow(g, depth, r, 0), depth, r + 1)

dirVectors == <<<<1, 0>>, <<0, -1>>, <<-1, 0>>, <<0, 1>>>>

\* dist <= width && rng.next() < 0.8: next() is called only within the circle,
\* and then map.set(r + wr, c + wc, WATER), r and c in fifths.  Within the map,
\* this.cells[row][col] = ... throws a TypeError when row is no integer
\* (this.cells[row] is undefined) and writes no cell when only col is none.
carveCell(g, r, c, wr, wc, width) ==
    IF wr * wr + wc * wc > width * width THEN g
    ELSE LET tested == next(g)
             row == r + 5 * wr
             col == c + 5 * wc
         IN  IF ~Below(tested.state, 8) THEN tested
             ELSE IF row < 0 \/ row >= 5 * g.map.height \/ col < 0 \/ col >= 5 * g.map.width
             THEN tested
             ELSE IF row % 5 # 0 THEN [tested EXCEPT !.thrown = TRUE]
             ELSE IF col % 5 # 0 THEN tested
             ELSE [tested EXCEPT !.map = set(@, row \div 5, col \div 5, WATER, 0)]

\* for (let wc = -width; wc <= width; wc++), from wc on
RECURSIVE carveRow(_, _, _, _, _, _)
carveRow(g, r, c, width, wr, wc) ==
    IF wc > width \/ g.thrown THEN g
    ELSE carveRow(carveCell(g, r, c, wr, wc, width), r, c, width, wr, wc + 1)

\* Carve water in a circular pattern around r, c:
\* for (let wr = -width; wr <= width; wr++), from wr on
RECURSIVE carveAround(_, _, _, _, _)
carveAround(g, r, c, width, wr) ==
    IF wr > width \/ g.thrown THEN g
    ELSE carveAround(carveRow(g, r, c, width, wr, -width), r, c, width, wr + 1)

\* Math.max(1, Math.min(limit - 2, x)), x in fifths and the result too
clampInside(x, limit) ==
    IF Min(5 * (limit - 2), x) > 5 THEN Min(5 * (limit - 2), x) ELSE 5

\* The steps of the path from the i-th on; r and c (in fifths) move after each,
\* by dr + rng.int(-1, 1) and dc + rng.int(-1, 1).
RECURSIVE carveSteps(_, _, _, _, _, _, _)
carveSteps(g, r, c, direction, length, width, i) ==
    IF i >= length \/ g.thrown THEN g
    ELSE LET gR == next(carveAround(g, r, c, width, -width))
             gC == next(gR)
         IN  carveSteps(gC,
                        clampInside(r + 5 * (dirVectors[direction + 1][1]
                                               + RngInt(gR.state, -1, 1)), g.map.height),
                        clampInside(c + 5 * (dirVectors[direction + 1][2]
                                               + RngInt(gC.state, -1, 1)), g.map.width),
                        direction, length, width, i + 1)

\* const [dr, dc] = dirVectors[direction] throws a TypeError when there is no
\* such vector.
carveWaterPath(g, startR, startC, direction, length, width) ==
    IF direction \notin 0..3 THEN [g EXCEPT !.thrown = TRUE]
    ELSE carveSteps(g, startR, startC, direction, length, width, 0)

\* One bay: edge, its start on the edge (0 top, 1 right, 2 bottom, else left),
\* bayLength and bayWidth, each by a next(), and the path carved.  The start
\* along the edge is rng.int(side * 0.2, side * 0.8), which is
\* Math.floor(next() * (side * 0.6 + 1)) + side * 0.2: in fifths,
\* 5 * Math.floor(next() * (3 * side + 5) / 5) + side.
carveBay(g) ==
    LET edge == RngInt(next(g).state, 0, 3)
        gS == next(next(g))
        side == IF edge \in {0, 2} THEN g.map.width ELSE g.map.height
        along == 5 * (FloorTimes(gS.state, 3 * side + 5) \div 5) + side
        gL == next(gS)
        gW == next(gL)
    IN  carveWaterPath(gW,
                       IF edge = 0 THEN 0
                       ELSE IF edge = 2 THEN 5 * (g.map.height - 1) ELSE along,
                       IF edge = 0 \/ edge = 2 THEN along
                       ELSE IF edge = 1 THEN 5 * (g.map.width - 1) ELSE 0,
                       edge,
                       RngInt(gL.state, 3, Min(g.map.width, g.map.height) \div 5),
                       RngInt(gW.state, 2, 4))

\* Create bays and inlets: the bays that are left.
RECURSIVE carveBays(_, _)
carveBays(g, numBays) ==
    IF numBays <= 0 \/ g.thrown THEN g ELSE carveBays(carveBay(g), numBays - 1)

\* The edges, to the depth edgeDepth = Math.max(2, Math.floor(Math.min(width,
\* height) * ratio * 0.3)) (ratio in hundredths), then numBays = rng.int(2, 4) bays.
createCoastalEdges(g, ratio) ==
    LET edgeDepth == IF (Min(g.map.width, g.map.height) * ratio * 3) \div 1000 > 2
                     THEN (Min(g.map.width, g.map.height) * ratio * 3) \div 1000
                     ELSE 2
        drawn == next(coastEdges(g, edgeDepth, 0))
    IN  carveBays(drawn, RngInt(drawn.state, 2, 4))

(***************************************************************************)
(* createLakes.  The centre is at rng.int(height * 0.25, height * 0.75),    *)
(* which is an integer only when height is a multiple of 4: the rows and    *)
(* columns of a lake are held in quarters of a cell (4 * row, 4 * col).     *)
(* The radii are rng.int(2, Math.floor(height * 0.1)): 1 or 2 on the maps   *)
(* of less than 30 cells a side, and the tenth of the side at most on the   *)
(* others.                                                                  *)
(***************************************************************************)
\* dist < 1.0 + rng.next() * 0.3 for the state next() has left and
\* dist * dist = num / den.  Below 1 the test passes and from 1.3 on it fails;
\* between them it passes from a least state on, which the doubles of
\* Math.sqrt(dr * dr + dc * dc) and of 1.0 + state / 0x7fffffff * 0.3 give for
\* each squared distance, here for those the radii 1 to 6 make (the maps of
\* less than 70 cells a side).
lakeReach(state, num, den) ==
    IF num < den THEN TRUE
    ELSE IF 100 * num >= 169 * den THEN FALSE
    ELSE LET least == {<<1, 1, 1>>, <<145, 144, 24812133>>, <<37, 36, 98739545>>,
                       <<26, 25, 141761858>>, <<949, 900, 192281773>>,
                       <<17, 16, 220306099>>, <<244, 225, 296113825>>,
                       <<10, 9, 387209580>>, <<9, 8, 434222424>>,
                       <<41, 36, 480945949>>, <<29, 25, 551423417>>,
                       <<481, 400, 691386727>>, <<5, 4, 844920203>>,
                       <<181, 144, 867120520>>, <<32, 25, 940389173>>,
                       <<1201, 900, 1110832900>>, <<34, 25, 1189637071>>,
                       <<49, 36, 1193046471>>, <<25, 18, 1277833673>>,
                       <<1261, 900, 1314871264>>, <<205, 144, 1382634120>>,
                       <<36, 25, 1431655765>>, <<13, 9, 1444901624>>,
                       <<1321, 900, 1514110473>>, <<53, 36, 1527230586>>,
                       <<37, 25, 1550143219>>, <<601, 400, 1616089300>>,
                       <<1369, 900, 1670265059>>, <<349, 225, 1756900129>>,
                       <<25, 16, 1789569706>>, <<229, 144, 1868755750>>,
                       <<8, 5, 1896307260>>, <<641, 400, 1903378395>>,
                       <<29, 18, 1927692402>>, <<13, 8, 1966772028>>,
                       <<41, 25, 2008790904>>, <<241, 144, 2102252092>>}
         IN  state >= (CHOOSE e \in least : e[1] * den = num * e[2])[3]

\* One cell of the lake, after the next() of its test, at r and c (in quarters),
\* offR = r - centerR and offC = c - centerC away from the centre:
\* dr = offR / radiusR, dc = offC / radiusC and dist = Math.sqrt(dr * dr + dc * dc),
\* then map.set(r, c, WATER).  Within the map, this.cells[row][col] = ... throws
\* a TypeError when row is no integer and writes no cell when only col is none.
lakeCell(g, r, c, offR, offC, radiusR, radiusC) ==
    IF ~lakeReach(g.state, offR * offR * radiusC * radiusC + offC * offC * radiusR * radiusR,
                  radiusR * radiusR * radiusC * radiusC)
    THEN g
    ELSE IF r < 0 \/ r >= 4 * g.map.height \/ c < 0 \/ c >= 4 * g.map.width THEN g
    ELSE IF r % 4 # 0 THEN [g EXCEPT !.thrown = TRUE]
    ELSE IF c % 4 # 0 THEN g
    ELSE [g EXCEPT !.map = set(@, r \div 4, c \div 4, WATER, 0)]

\* for (let c = centerC - radiusC - 2; c <= centerC + radiusC + 2; c++), from
\* centerC + offC on
RECURSIVE lakeRow(_, _, _, _, _, _, _)
lakeRow(g, centerR, centerC, radiusR, radiusC, offR, offC) ==
    IF offC > radiusC + 2 \/ g.thrown THEN g
    ELSE lakeRow(lakeCell(next(g), centerR + 4 * offR, centerC + 4 * offC, offR, offC,
                          radiusR, radiusC),
                 centerR, centerC, radiusR, radiusC, offR, offC + 1)

\* Create irregular lake shape:
\* for (let r = centerR - radiusR - 2; r <= centerR + radiusR + 2; r++), from
\* centerR + offR on
RECURSIVE lakeShape(_, _, _, _, _, _)
lakeShape(g, centerR, centerC, radiusR, radiusC, offR) ==
    IF offR > radiusR + 2 \/ g.thrown THEN g
    ELSE lakeShape(lakeRow(g, centerR, centerC, radiusR, radiusC, offR, -radiusC - 2),
                   centerR, centerC, radiusR, radiusC, offR + 1)

\* One lake: centerR, centerC, radiusR and radiusC, each by a next(), and its
\* shape.  centerR is Math.floor(next() * (height * 0.5 + 1)) + height * 0.25:
\* in quarters, 4 * Math.floor(next() * (height + 2) / 2) + height.
createLake(g) ==
    LET centerR == 4 * (FloorTimes(next(g).state, g.map.height + 2) \div 2) + g.map.height
        gC == next(next(g))
        centerC == 4 * (FloorTimes(gC.state, g.map.width + 2) \div 2) + g.map.width
        gRR == next(gC)
        radiusR == RngInt(gRR.state, 2, g.map.height \div 10)
        gRC == next(gRR)
        radiusC == RngInt(gRC.state, 2, g.map.width \div 10)
    IN  lakeShape(gRC, centerR, centerC, radiusR, radiusC, -radiusR - 2)

\* createLakes that leaves its loop after the first lake.
createLakes_Single(g, numLakes) ==
    IF numLakes <= 0 \/ g.thrown THEN g
    ELSE [createLake(g) EXCEPT !.lakes = @ + 1]

\* for (let i = 0; i < numLakes; i++), the lakes that are left; lakes counts the
\* passes of the loop that were begun.
RECURSIVE createLakes(_, _)
createLakes(g, numLakes) ==
    IF numLakes <= 0 \/ g.thrown THEN g
    ELSE createLakes([createLake(g) EXCEPT !.lakes = @ + 1], numLakes - 1)

(***************************************************************************)
(* generateTerrain                                                         *)
(***************************************************************************)
\* generateTerrain(cols, rows, options) when the first next() of an unseeded
\* generator leaves `first` and Math.random() gives `randoms` to smoothTerrain:
\* the fill, the coast, the lakes (as many as
\* Math.max(1, Math.floor(opts.waterRatio * 10))), the regions and the
\* smoothing; a TypeError ends the call.
generateTerrain(cols, rows, options, first, randoms) ==
    LET opts == mergeOptions(options)
        filled == fillFlat(SeededRandomNew(cols, rows, opts.seed, first, randoms), 0)
        coasted == IF opts.createCoast THEN createCoastalEdges(filled, opts.waterRatio)
                   ELSE filled
        laked == IF opts.createLakes /\ ~coasted.thrown
                 THEN createLakes(coasted, IF opts.waterRatio \div 10 > 1
                                           THEN opts.waterRatio \div 10 ELSE 1)
                 ELSE coasted
    IN  IF laked.thrown THEN laked
        ELSE smoothTerrain(createElevatedRegions(laked, opts.elevatedRegions))

(***************************************************************************)
(* The generator as a state machine: generateTerrain is called, and called *)
(* again with the same arguments; terrain is the map returned last, result *)
(* tells whether the call threw, which regions it placed, the attempts     *)
(* each region asked for took, the lakes it began and the cells its        *)
(* smoothing met.                                                          *)
(***************************************************************************)
MaxSeed == 3
MaxRegions == 2
MathRandomPeriod == 2

GenSizes == {<<5, 5>>, <<8, 8>>}

\* 1.946027762 * 1103515245 + 12345 = 2147483647.4..., so that the first next() of
\* the seed 1.946027762 leaves 0x7fffffff.
GenSeeds == {Whole(n) : n \in 0..MaxSeed} \cup {Fraction(INT_MAX)}

\* What the first next() may leave when Math.random() has seeded the generator.
FirstStates == {1000000000, INT_MAX}

\* What Math.floor(Math.random() * 4) gives, call after call.
MathRandoms == [1..MathRandomPeriod -> 0..3]

\* The options given: all but waterRatio, the seed alone, and those of
\* GameScene.createTerrain (waterRatio 0.12, four regions, lakes and coast);
\* where the lakes fit (width and height multiples of 4), lakes and one region
\* at the waterRatio 0, 0.12, 0.15 (the default), 0.2, 0.25 and 1.
GenOptions(size) ==
    {[elevatedRegions |-> k, createLakes |-> l, createCoast |-> c, seed |-> s] :
        k \in 0..MaxRegions, l \in BOOLEAN, c \in BOOLEAN, s \in GenSeeds}
    \cup {[seed |-> s] : s \in GenSeeds}
    \cup {[waterRatio |-> 12, elevatedRegions |-> 4, createLakes |-> TRUE,
           createCoast |-> TRUE, seed |-> s] : s \in GenSeeds}
    \cup (IF size[1] % 4 = 0 /\ size[2] % 4 = 0
          THEN {[waterRatio |-> w, elevatedRegions |-> 1, createLakes |-> TRUE,
                 createCoast |-> FALSE, seed |-> Whole(2)] : w \in {0, 12, 15, 20, 25, 100}}
          ELSE {})

FirstChoices(options) ==
    IF seeded(mergeOptions(options).seed) THEN {0} ELSE FirstStates

GenerateTerrain(cols, rows, options, first, randoms) ==
    /\ nOps < MaxOps
    /\ \/ lastCall.op = "new"
       \/ /\ lastCall.op = "generateTerrain"
          /\ lastCall.args = <<cols, rows, options>>
    /\ \E g \in {generateTerrain(cols, rows, options, first, randoms)} :
          /\ terrain' = IF g.thrown THEN terrain ELSE g.map
          /\ result' = [thrown |-> g.thrown, regions |-> g.regions, attempts |-> g.attempts,
                        lakes |-> g.lakes, smoothed |-> g.smoothed]
    /\ lastCall' = [op |-> "generateTerrain", args |-> <<cols, rows, options>>]
    /\ nOps' = nOps + 1
    /\ UNCHANGED <<grid, nSearches, raw, blocked, saved, queue, gold, search, registry, gridWidth, gridHeight>>

NextGen ==
    \/ \E size \in GenSizes : \E options \in GenOptions(size) :
          \E first \in FirstChoices(options), randoms \in MathRandoms :
             GenerateTerrain(size[1], size[2], options, first, randoms)
    \/ \E data \in LoadInputs : TmFromData(data)

SpecGen == Init /\ [][NextGen]_vars

(***************************************************************************)
(* Vocabulary of the generator claims.                                     *)
(***************************************************************************)
Generated == lastCall.op = "generateTerrain"

\* The step is a second call of generateTerrain with the arguments of the
\* first, and both calls have returned a map.
Repeated ==
    /\ Generated
    /\ lastCall' = lastCall
    /\ nOps' = nOps + 1
    /\ ~result.thrown
    /\ ~result'.thrown

SeedGiven == mergeOptions(lastCall.args[3]).seed

Kinds(map) ==
    [r \in 0..(map.height - 1) |-> [c \in 0..(map.width - 1) |-> map.cells[r][c].level]]

VariationsOf(map) ==
    {map.cells[r][c].variation : r \in 0..(map.height - 1), c \in 0..(map.width - 1)}

(***************************************************************************)
(* C16. For every seed supplied and every fixed cols, rows and options,    *)
(* two calls of generateTerrain return maps with the same kind in every    *)
(* cell.  The code takes the seed 0 for no seed at all (opts.seed ||       *)
(* Math.random() * 100000), so that the statement fails for the seed 0; it *)
(* holds for every other seed modelled (C16_TruthySeedSameKinds).          *)
(***************************************************************************)
C16_Step == Repeated => Kinds(terrain') = Kinds(terrain)

C16_SameSeedSameKinds == [][C16_Step]_vars

C16_TruthyStep ==
    Generated /\ lastCall' = lastCall /\ nOps' = nOps + 1 /\ seeded(SeedGiven)
        => /\ result' = result
           /\ ~result.thrown => Kinds(terrain') = Kinds(terrain)

C16_TruthySeedSameKinds == [][C16_TruthyStep]_vars

(***************************************************************************)
(* C17. With a seed supplied, generateTerrain takes all its randomness     *)
(* from the seeded generator, and two calls with the same seed and options *)
(* return the same kind and the same variation in every cell.  The code    *)
(* gives the cells that smoothTerrain changes the variation                *)
(* Math.floor(Math.random() * 4), whatever the seed.                       *)
(***************************************************************************)
C17_Step == Repeated /\ seeded(SeedGiven) => terrain' = terrain

C17_SameSeedSameGrid == [][C17_Step]_vars

(***************************************************************************)
(* C18. generateTerrain returns a cols x rows map without raising an error *)
(* for every seed and every combination of options; each region asked for  *)
(* gets at most 50 attempts and is left out when all fail.  The code       *)
(* throws a TypeError in createLakes when height is no multiple of 4 (the  *)
(* row of the lake's centre is no integer), and in carveWaterPath when the *)
(* row a bay starts at is no integer (a bay on the left or right edge of a *)
(* map whose height is no multiple of 5) and when rng.int(0, 3) gives 4;   *)
(* the calls that return do as stated (C18_ReturnedAsStated).              *)
(***************************************************************************)
C18_NeverThrows == Generated => ~result.thrown

C18_ReturnedAsStated ==
    Generated /\ ~result.thrown
        => /\ terrain.width = lastCall.args[1] /\ terrain.height = lastCall.args[2]
           /\ Len(result.attempts) = mergeOptions(lastCall.args[3]).elevatedRegions
           /\ \A i \in 1..Len(result.attempts) : result.attempts[i] \in 0..50
           /\ Len(result.regions)
                = Cardinality({i \in 1..Len(result.attempts) : result.attempts[i] < 50})

(***************************************************************************)
(* C19. Every cell of every map returned by generateTerrain or by fromData *)
(* has a variation in 0..3, for every seed and every value next() can      *)
(* return.  next() returns state / 0x7fffffff, which is 1 when the state   *)
(* is 0x7fffffff, and rng.int(0, 3) is then 4; the variation is never      *)
(* beyond 4, and fromData gives 0 (C19_VariationAtMostFour).               *)
(***************************************************************************)
C19_VariationInRange == terrain.made => VariationsOf(terrain) \subseteq 0..3

C19_VariationAtMostFour ==
    /\ terrain.made => VariationsOf(terrain) \subseteq 0..4
    /\ terrain.made /\ lastCall.op = "fromData" => VariationsOf(terrain) = {0}

(***************************************************************************)
(* ProductionQueue (src/systems/ProductionQueue.ts) and the gold of the    *)
(* EconomyManager (HUDScene.ts:499-541) it spends.                         *)
(***************************************************************************)
MaxGold == 250

UnitCost == [knight |-> 100, footman |-> 50, archer |-> 75, peasant |-> 25, lancer |-> 120]

TrainTime == [knight |-> 8, footman |-> 5, archer |-> 6, peasant |-> 3, lancer |-> 10]

maxQueue == 5

\* spendGold(cost): what it returns, the gold afterwards and what it emits.
spendGold(balance, cost) ==
    IF balance < cost
    THEN [returned |-> FALSE, gold |-> balance, events |-> <<>>]
    ELSE [returned |-> TRUE, gold |-> balance - cost, events |-> <<"gold-changed">>]

\* addGold(amount)
addGold(balance, amount) == balance + amount

\* enqueue once spendGold has answered
enqueueSpent(q, spent, unitType, team, trainTimeSec) ==
    IF ~spent.returned
    THEN [returned |-> FALSE, queue |-> q, gold |-> spent.gold, events |-> spent.events]
    ELSE [returned |-> TRUE,
          queue |-> Append(q, [unitType |-> unitType, team |-> team,
                               timeRemaining |-> trainTimeSec * 1000,
                               totalTime |-> trainTimeSec * 1000]),
          gold |-> spent.gold, events |-> Append(spent.events, "queue-changed")]

\* enqueue that spends the gold before it looks at the length of the queue.
enqueue_SpendFirst(q, balance, unitType, team, goldCost, trainTimeSec) ==
    IF Len(q) >= maxQueue
    THEN [returned |-> FALSE, queue |-> q, gold |-> spendGold(balance, goldCost).gold,
          events |-> spendGold(balance, goldCost).events]
    ELSE enqueueSpent(q, spendGold(balance, goldCost), unitType, team, trainTimeSec)

\* enqueue(unitType, team, goldCost, trainTimeSec): what it returns, the queue and
\* the gold afterwards, and what is emitted.
enqueue(q, balance, unitType, team, goldCost, trainTimeSec) ==
    IF Len(q) >= maxQueue
    THEN [returned |-> FALSE, queue |-> q, gold |-> balance, events |-> <<>>]
    ELSE enqueueSpent(q, spendGold(balance, goldCost), unitType, team, trainTimeSec)

\* update(delta): the queue afterwards, the units spawnFn is called for and what
\* is emitted.
update(q, delta) ==
    IF Len(q) = 0 THEN [queue |-> q, spawned |-> <<>>, events |-> <<>>]
    ELSE IF q[1].timeRemaining - delta <= 0
    THEN [queue |-> Tail(q), spawned |-> <<<<q[1].unitType, q[1].team>>>>,
          events |-> <<"unit-trained", "queue-changed">>]
    ELSE [queue |-> [q EXCEPT ![1].timeRemaining = @ - delta], spawned |-> <<>>,
          events |-> <<>>]

\* cancelAll()
cancelAll(q) == [queue |-> <<>>, events |-> <<"queue-changed">>]

\* The units the buttons of the HUD enqueue (HUDScene.ts:174-186): those a
\* barracks and an archery produce (PRODUCIBLE, part_008:421-424), each for the
\* player at its UnitCost and TrainTime.
QueueUnits == {"knight", "footman", "lancer", "archer"}

\* The time of a frame; the gold added at a time.
Deltas == {3000}

Incomes == {50}

Enqueue(unitType, team, goldCost, trainTimeSec) ==
    /\ \E done \in {enqueue(queue, gold, unitType, team, goldCost, trainTimeSec)} :
          /\ queue' = done.queue
          /\ gold' = done.gold
          /\ result' = [returned |-> <<done.returned>>, events |-> done.events]
    /\ lastCall' = [op |-> "enqueue", args |-> <<unitType, team, goldCost, trainTimeSec>>]
    /\ UNCHANGED <<grid, nOps, nSearches, raw, blocked, terrain, saved, search, registry, gridWidth, gridHeight>>

Update(delta) ==
    /\ queue' = update(queue, delta).queue
    /\ result' = [returned |-> update(queue, delta).spawned,
                  events |-> update(queue, delta).events]
    /\ lastCall' = [op |-> "update", args |-> <<delta>>]
    /\ UNCHANGED <<grid, nOps, nSearches, raw, blocked, terrain, saved, gold, search, registry, gridWidth, gridHeight>>

CancelAll ==
    /\ queue' = cancelAll(queue).queue
    /\ result' = [returned |-> <<>>, events |-> cancelAll(queue).events]
    /\ lastCall' = [op |-> "cancelAll", args |-> <<>>]
    /\ UNCHANGED <<grid, nOps, nSearches, raw, blocked, terrain, saved, gold, search, registry, gridWidth, gridHeight>>

AddGold(amount) ==
    /\ addGold(gold, amount) <= MaxGold
    /\ gold' = addGold(gold, amount)
    /\ result' = [returned |-> <<>>, events |-> <<"gold-changed">>]
    /\ lastCall' = [op |-> "addGold", args |-> <<amount>>]
    /\ UNCHANGED <<grid, nOps, nSearches, raw, blocked, terrain, saved, queue, search, registry, gridWidth, gridHeight>>

NextQueue ==
    \/ \E unitType \in QueueUnits :
          Enqueue(unitType, "player", UnitCost[unitType], TrainTime[unitType])
    \/ \E delta \in Deltas : Update(delta)
    \/ CancelAll
    \/ \E amount \in Incomes : AddGold(amount)

SpecQueue == Init /\ [][NextQueue]_vars

(***************************************************************************)
(* C20. After any sequence of enqueue, update and cancelAll calls with     *)
(* costs that are not negative, the queue holds at most 5 entries and the  *)
(* gold is not below 0; an enqueue that returns false (the queue is full   *)
(* or the gold is below the cost) changes neither the gold nor the queue,  *)
(* and one that returns true takes exactly goldCost and appends exactly    *)
(* one entry at the tail.                                                  *)
(***************************************************************************)
C20_Bounded == Len(queue) <= 5 /\ gold >= 0

C20_EnqueueStep ==
    lastCall'.op = "enqueue"
        => IF result'.returned = <<TRUE>>
           THEN /\ Len(queue) < 5 /\ gold >= lastCall'.args[3]
                /\ gold' = gold - lastCall'.args[3]
                /\ Len(queue') = Len(queue) + 1
                /\ SubSeq(queue', 1, Len(queue)) = queue
                /\ queue'[Len(queue')].unitType = lastCall'.args[1]
                /\ queue'[Len(queue')].team = lastCall'.args[2]
                /\ queue'[Len(queue')].timeRemaining = lastCall'.args[4] * 1000
           ELSE /\ Len(queue) >= 5 \/ gold < lastCall'.args[3]
                /\ gold' = gold
                /\ queue' = queue

C20_QueueAndGoldKept == []C20_Bounded /\ [][C20_EnqueueStep]_vars

\* The queue is full and an enqueue has just been refused, at a cost above 0
\* that the gold would have covered.
C20_Witness ==
    /\ Len(queue) = 5
    /\ lastCall.op = "enqueue"
    /\ result.returned = <<FALSE>>
    /\ gold >= lastCall.args[3]
    /\ lastCall.args[3] > 0

(***************************************************************************)
(* C21. When createLakes is set, generateTerrain places exactly            *)
(* ceil(waterRatio x 10) lakes, for every waterRatio of [0, 1]: 2 lakes    *)
(* for 0.15 and for 0.12.  The code asks createLakes for                   *)
(* Math.max(1, Math.floor(opts.waterRatio * 10)) lakes (part_006:75): 1    *)
(* lake for 0.15, for 0.12 and for 0, and ceil(waterRatio x 10) only where *)
(* waterRatio x 10 is a whole number above 0.  As amended: a call that     *)
(* returns has made max(1, floor(waterRatio x 10)) lakes when createLakes  *)
(* is set and none when it is not; a call that throws has begun no more.   *)
(***************************************************************************)
WaterRatioGiven == mergeOptions(lastCall.args[3]).waterRatio

LakesAsked == IF mergeOptions(lastCall.args[3]).createLakes
              THEN (IF WaterRatioGiven \div 10 > 1 THEN WaterRatioGiven \div 10 ELSE 1)
              ELSE 0

\* C21 as stated: the lakes of a call that returns are ceil(waterRatio x 10).
C21_CeilLakes ==
    Generated /\ ~result.thrown /\ mergeOptions(lastCall.args[3]).createLakes
        => result.lakes = Ceil(WaterRatioGiven, 10)

\* C21 as amended: the lakes of a call that returns are
\* max(1, floor(waterRatio x 10)), or none without createLakes.
C21_FloorLakes ==
    Generated
        => /\ ~result.thrown => result.lakes = LakesAsked
           /\ result.lakes <= LakesAsked

\* A call with the default waterRatio of 0.15 and createLakes set has returned an
\* 8 x 8 map, after one lake.
C21_Witness ==
    /\ Generated
    /\ ~result.thrown
    /\ mergeOptions(lastCall.args[3]).createLakes
    /\ WaterRatioGiven = 15
    /\ result.lakes = 1
    /\ terrain.width = 8 /\ terrain.height = 8

(***************************************************************************)
(* C22. In each of the two smoothing passes a cell with at most one        *)
(* 4-neighbour of its own kind adopts the kind that is strictly most       *)
(* frequent among its 4 neighbours, and keeps its kind when two or more    *)
(* kinds tie for most frequent; a cell with two or more neighbours of its  *)
(* kind is left as it is.  smoothTerrain starts from maxCount = 0 and      *)
(* takes a kind whenever its count is greater, in the order the kinds were *)
(* first met (up, down, left, right): on a tie the cell takes the tied     *)
(* kind met first, which need not be its own.  The rest is as stated       *)
(* (C22_TiesTakeFirst).                                                    *)
(***************************************************************************)
\* A visit of smoothTerrain is <<level, neighbours, level afterwards>>.
TimesAround(visit, kind) == Cardinality({i \in 1..4 : visit[2][i] = kind})

\* The kinds no other kind is as frequent as, among the neighbours: one or none.
StrictlyMost(visit) ==
    {k \in TerrainLevel :
        \A l \in TerrainLevel \ {k} : TimesAround(visit, l) < TimesAround(visit, k)}

\* The neighbours whose kind no kind is more frequent than.
AmongMost(visit) ==
    {i \in 1..4 : \A l \in TerrainLevel :
                     TimesAround(visit, l) <= TimesAround(visit, visit[2][i])}

C22_TiesKeepKind ==
    Generated /\ ~result.thrown
        => \A visit \in result.smoothed :
              IF TimesAround(visit, visit[1]) <= 1 /\ StrictlyMost(visit) # {}
              THEN visit[3] \in StrictlyMost(visit)
              ELSE visit[3] = visit[1]

C22_TiesTakeFirst ==
    Generated /\ ~result.thrown
        => \A visit \in result.smoothed :
              IF TimesAround(visit, visit[1]) >= 2 THEN visit[3] = visit[1]
              ELSE /\ StrictlyMost(visit) # {} => visit[3] \in StrictlyMost(visit)
                   /\ \E i \in AmongMost(visit) :
                         /\ visit[3] = visit[2][i]
                         /\ \A j \in AmongMost(visit) : i <= j

(***************************************************************************)
(* findPath step by step: the call up to its loop, then one step for each  *)
(* pass of `while (openList.length > 0)` and one for the return after it.  *)
(* The terrain and the obstacles are laid out before the first search; a   *)
(* call runs to its end before the next call is made (the program has one  *)
(* thread and findPath never yields).                                      *)
(***************************************************************************)
\* findPath / findPathSmooth calls made one after the other on an instance, and
\* calls of any kind.
MaxRuns == 2
MaxCalls == 3

\* findPath from its entry to `openList.push(startNode)`, called directly
\* (op = "findPath") or as the first statement of findPathSmooth.
SearchStart(op, from, to) ==
    /\ search.phase # "searching"
    /\ nSearches < MaxRuns
    /\ nOps + nSearches < MaxCalls
    /\ LET start == worldToGrid(from[1], from[2])
           end == worldToGrid(to[1], to[2])
       IN  IF ~isValidCell(start.x, start.y) \/ ~isValidCell(end.x, end.y)
           THEN grid' = grid /\ search' = [NoSearch EXCEPT !.phase = "done"]
           ELSE IF ~grid[end.y][end.x].walkable
           THEN grid' = grid /\ search' = [NoSearch EXCEPT !.phase = "done"]
           ELSE /\ grid' = resetGrid(grid)
                /\ search' = [phase |-> "searching",
                              openList |-> << <<start.x, start.y>> >>,
                              closedList |-> {}, end |-> <<end.x, end.y>>,
                              expanded |-> <<>>]
    /\ raw' = <<>>
    /\ result' = <<>>
    /\ nSearches' = nSearches + 1
    /\ lastCall' = [op |-> op, args |-> <<from[1], from[2], to[1], to[2]>>]
    /\ UNCHANGED <<nOps, blocked, terrain, saved, queue, gold, registry, gridWidth, gridHeight>>

\* One pass of the loop of findPath: the open node of least f is taken; the call
\* returns the path if it is the goal, and otherwise the node is closed and its
\* neighbours are visited.  With the open list empty the call returns [].
\* findPathSmooth returns what it makes of the path.
SearchStep ==
    /\ search.phase = "searching"
    /\ IF Len(search.openList) = 0
       THEN /\ raw' = <<>>
            /\ result' = <<>>
            /\ search' = [search EXCEPT !.phase = "done"]
            /\ grid' = grid
       ELSE LET currentIndex == LowestF(grid, search.openList, 2, 1)
                current == search.openList[currentIndex]
            IN  IF current = search.end
                THEN /\ raw' = reconstructPath(grid, current)
                     /\ result' = IF lastCall.op = "findPathSmooth"
                                  THEN Smooth(reconstructPath(grid, current))
                                  ELSE reconstructPath(grid, current)
                     /\ search' = [search EXCEPT !.phase = "done"]
                     /\ grid' = grid
                ELSE \E step \in {VisitNeighbors(grid, Splice(search.openList, currentIndex),
                                                 search.closedList \cup {current}, current,
                                                 getNeighbors(current[1], current[2]),
                                                 search.end, 1)} :
                        /\ grid' = step.grid
                        /\ search' = [search EXCEPT !.openList = step.openList,
                                                    !.closedList = @ \cup {current},
                                                    !.expanded = Append(@, current)]
                        /\ UNCHANGED <<raw, result, registry, gridWidth, gridHeight>>
    /\ UNCHANGED <<nOps, nSearches, lastCall, blocked, terrain, saved, queue, gold, registry, gridWidth, gridHeight>>

NextSearch ==
    \/ nSearches = 0 /\ \E c \in CellArgs, walkable \in BOOLEAN : SetWalkable(c, walkable)
    \/ nSearches = 0 /\ \E c \in CellArgs, level \in TerrainLevel : SetTerrainLevel(c, level)
    \/ nSearches = 0
          /\ \E site \in BuildingSites, size \in Footprints : MarkBuildingBlocked(site, size)
    \* between a point of cell (0,0) off its centre, the centres of cell (1,1) and
    \* of the last cell of the grid, and the pixel left of the grid
    \/ LET points == {<<1, cellSize - 1>>, Centre(<<1, 1>>),
                       Centre(<<gridWidth - 1, gridHeight - 1>>), <<-1, cellSize \div 2>>}
       IN  \E op \in {"findPath", "findPathSmooth"}, from \in points, to \in points :
              SearchStart(op, from, to)
    \/ SearchStep

\* A call that has begun takes its next step: findPath runs its loop without
\* yielding, so SearchStep is taken while it stays possible.  This is
\* WF_vars(SearchStep) with ENABLED <<SearchStep>>_vars written out as the
\* guard of SearchStep, search.phase = "searching" (every SearchStep changes
\* search, so the step is enabled exactly when its guard holds).
SpecSearch ==
    Init /\ [][NextSearch]_vars
        /\ ([]<>(search.phase # "searching") \/ []<><<SearchStep>>_vars)

(***************************************************************************)
(* C23. Every findPath call terminates: each cell is moved from the open   *)
(* set to the closed set at most once and is never opened again, so that   *)
(* the loop expands at most width x height cells; the call returns the     *)
(* path when the goal is taken off the open set and an empty sequence when *)
(* the open set is exhausted.                                              *)
(***************************************************************************)
Searching == search.phase = "searching"

\* The call has returned after its loop has run (it was not rejected at entry).
SearchEnded == search.phase = "done" /\ search.openList \o search.expanded # <<>>

OpenCells == {search.openList[i] : i \in 1..Len(search.openList)}

C23_Bounded ==
    /\ \A i, j \in 1..Len(search.expanded) : i # j => search.expanded[i] # search.expanded[j]
    /\ \A i, j \in 1..Len(search.openList) : i # j => search.openList[i] # search.openList[j]
    /\ search.closedList = {search.expanded[i] : i \in 1..Len(search.expanded)}
    /\ OpenCells \cap search.closedList = {}
    /\ Len(search.expanded) <= gridWidth * gridHeight
    /\ SearchEnded =>
          IF raw = <<>>
          THEN search.openList = <<>> /\ search.end \notin search.closedList
          ELSE /\ search.end \in OpenCells
               /\ raw[Len(raw)] = Centre(search.end)
               /\ raw[1] = Centre(StartCell)

\* Once closed, a cell stays closed.
C23_ClosedStep == Searching => search.closedList \subseteq search'.closedList

C23_Terminates ==
    /\ []C23_Bounded
    /\ [][C23_ClosedStep]_vars
    /\ Searching ~> search.phase = "done"

\* A search has ended empty-handed after expanding every cell but its goal,
\* which no move leads to.
C23_Witness ==
    /\ SearchEnded
    /\ raw = <<>>
    /\ Len(search.expanded) = gridWidth * gridHeight - 1
    /\ Walkable(search.end)

(***************************************************************************)
(* C24. The result of findPath depends only on the cells' kind and         *)
(* walkable fields and on the four arguments: every searching call first   *)
(* resets g, h, f and parent of every node, so that after any earlier      *)
(* findPath / findPathSmooth calls (successful, empty or rejected) a query *)
(* returns the waypoints it returns on a fresh grid of the same kinds and  *)
(* walkable flags.                                                         *)
(***************************************************************************)
\* A newly built grid given the kinds and walkable flags of the present one.
FreshGrid ==
    [y \in 0..(gridHeight - 1) |->
        [x \in 0..(gridWidth - 1) |->
            [initializeGrid[y][x] EXCEPT !.walkable = grid[y][x].walkable,
                                         !.terrainLevel = grid[y][x].terrainLevel]]]

\* The call has passed its validation and has not yet taken a node off the open list.
SearchBegun == Searching /\ search.expanded = <<>>

C24_FreshEachCall ==
    /\ SearchBegun =>
          \A c \in Cells :
              /\ Node(grid, c).g = FZero /\ Node(grid, c).h = FZero /\ Node(grid, c).f = FZero
              /\ Node(grid, c).parent = NULL
    /\ search.phase = "done" =>
          /\ raw = findPath(FreshGrid, lastCall.args[1], lastCall.args[2],
                            lastCall.args[3], lastCall.args[4]).ret
          /\ result = IF lastCall.op = "findPathSmooth"
                      THEN findPathSmooth(FreshGrid, lastCall.args[1], lastCall.args[2],
                                          lastCall.args[3], lastCall.args[4]).ret
                      ELSE raw

\* The second search of an instance has returned a path of three cells or more.
C24_Witness ==
    /\ nSearches = 2
    /\ SearchEnded
    /\ Len(raw) >= 3

(***************************************************************************)
(* C25. At every step of a findPath run the parent back-references form a  *)
(* tree rooted at the start cell: the start cell has no parent, the parent *)
(* of every opened cell is a cell already in the closed set, and following *)
(* parents from any opened cell reaches the start without visiting a cell  *)
(* twice; hence path reconstruction terminates and the returned path       *)
(* contains no cell more than once.                                        *)
(***************************************************************************)
\* The cells the present search has put on its open list so far.
Opened == OpenCells \cup search.closedList

\* The cells met following parent from cell c, c first, for up to n cells.
RECURSIVE Ancestry(_, _)
Ancestry(c, n) ==
    IF n = 0 \/ c = NULL THEN <<>>
    ELSE <<c>> \o Ancestry(Node(grid, c).parent, n - 1)

NoRepeat(seq) == \A i, j \in 1..Len(seq) : i # j => seq[i] # seq[j]

C25_ParentTree ==
    (Searching \/ SearchEnded) =>
       /\ Node(grid, StartCell).parent = NULL
       /\ \A c \in Opened \ {StartCell} : Node(grid, c).parent \in search.closedList
       /\ \A c \in Opened :
             LET line == Ancestry(c, gridWidth * gridHeight + 1)
             IN  /\ NoRepeat(line)
                 /\ Len(line) <= gridWidth * gridHeight
                 /\ line[Len(line)] = StartCell
       /\ (SearchEnded /\ raw # <<>>) =>
             LET line == Ancestry(search.end, gridWidth * gridHeight + 1)
             IN  /\ NoRepeat(raw)
                 /\ Len(raw) = Len(line)
                 /\ \A i \in 1..Len(raw) : raw[i] = Centre(line[Len(line) + 1 - i])

\* A search is under way in which some open cell lies three parents from the start.
C25_Witness ==
    /\ Searching
    /\ \E c \in OpenCells : Len(Ancestry(c, gridWidth * gridHeight + 1)) >= 4

(***************************************************************************)
(* C26. Whenever findPath returns a non-empty path, its total cost (1 per  *)
(* cardinal step, sqrt(2) per diagonal step) is minimal among all          *)
(* sequences of admissible moves from the start cell to the goal cell.     *)
(* A cost is written <<a, b>> for a + b*sqrt(2).                           *)
(***************************************************************************)
StepCost(c, d) == IF Diagonal(c, d) THEN <<0, 1>> ELSE <<1, 0>>

\* The cost of a sequence of waypoints, from its i-th waypoint on.
RECURSIVE PathCost(_, _)
PathCost(path, i) ==
    IF i >= Len(path) THEN <<0, 0>>
    ELSE LET step == StepCost(CellOf(path[i]), CellOf(path[i + 1]))
             rest == PathCost(path, i + 1)
         IN  <<step[1] + rest[1], step[2] + rest[2]>>

\* The least of a non-empty finite set of costs.
Cheapest(costs) == CHOOSE p \in costs : \A q \in costs : ~RealLess(q[1], q[2], p[1], p[2])

\* One round of relaxation: cost[d] is the least cost found so far of a chain of
\* admissible moves from the start to d, NULL when none has been found.
Relaxed(cost) ==
    [d \in Cells |->
        LET via == {<<cost[c][1] + StepCost(c, d)[1], cost[c][2] + StepCost(c, d)[2]>> :
                       c \in {c \in Cells : cost[c] # NULL /\ Move(c, d)}}
            found == via \cup (IF cost[d] = NULL THEN {} ELSE {cost[d]})
        IN  IF found = {} THEN NULL ELSE Cheapest(found)]

RECURSIVE LeastCosts(_)
LeastCosts(cost) == IF Relaxed(cost) = cost THEN cost ELSE LeastCosts(Relaxed(cost))

\* The least cost of a chain of admissible moves from cell `from` to each cell.
LeastCostFrom(from) == LeastCosts([d \in Cells |-> IF d = from THEN <<0, 0>> ELSE NULL])

C26_PathIsCheapest ==
    (Searched /\ raw # <<>>) =>
        /\ \A i \in 1..(Len(raw) - 1) : Move(CellOf(raw[i]), CellOf(raw[i + 1]))
        /\ PathCost(raw, 1) = LeastCostFrom(StartCell)[GoalCell]

\* A search has returned a path of two steps although another chain of two
\* admissible moves, of greater cost, leads from its start to its goal.
C26_Witness ==
    /\ Searched
    /\ Len(raw) = 3
    /\ \E c \in Cells :
          /\ Move(StartCell, c) /\ Move(c, GoalCell)
          /\ RealLess(PathCost(raw, 1)[1], PathCost(raw, 1)[2],
                      StepCost(StartCell, c)[1] + StepCost(c, GoalCell)[1],
                      StepCost(StartCell, c)[2] + StepCost(c, GoalCell)[2])

(***************************************************************************)
(* C27. Reachability by findPath is symmetric: for any two in-range        *)
(* walkable cells a and b and any assignment of kinds, findPath from a to  *)
(* b returns a non-empty path exactly when findPath from b to a does.      *)
(***************************************************************************)
\* What findPath returns for the last query with its start and goal exchanged.
ReturnPath ==
    findPath(grid, lastCall.args[3], lastCall.args[4], lastCall.args[1], lastCall.args[2]).ret

BothEndsWalkable ==
    /\ Searched
    /\ InGrid(StartCell) /\ InGrid(GoalCell)
    /\ Walkable(StartCell) /\ Walkable(GoalCell)

NoRamp == \A c \in Cells : Kind(c) # RAMP

C27_Symmetric == BothEndsWalkable => (raw # <<>> <=> ReturnPath # <<>>)

\* Reachability is symmetric on a grid without a Ramp cell.  (With a Ramp cell a
\* route can be one-way: the corner check of a diagonal step tests the corners
\* against the kind of the cell the step leaves, and a Ramp passes to corners
\* that an elevated cell does not.)
C27_SymmetricWithoutRamp ==
    (BothEndsWalkable /\ NoRamp) => (raw # <<>> <=> ReturnPath # <<>>)

\* On a grid with an elevated cell and no Ramp, a search between two different
\* cells has returned a path with a diagonal step.
C27_Witness ==
    /\ BothEndsWalkable /\ NoRamp
    /\ StartCell # GoalCell
    /\ \E c \in Cells : isElevated(Kind(c))
    /\ \E i \in 1..(Len(raw) - 1) : Diagonal(CellOf(raw[i]), CellOf(raw[i + 1]))
    /\ ReturnPath # <<>>

(***************************************************************************)
(* C28. When the start point and the end point fall in the same in-range   *)
(* walkable cell, findPath returns exactly one waypoint, the centre of     *)
(* that cell, and findPathSmooth returns the same single waypoint.         *)
(***************************************************************************)
C28_SameCellOneWaypoint ==
    (/\ Searched
     /\ InGrid(StartCell) /\ StartCell = GoalCell
     /\ Walkable(StartCell))
    => /\ raw = <<Centre(StartCell)>>
       /\ result = <<Centre(StartCell)>>

\* findPathSmooth has answered a query between points of one walkable cell that
\* are not its centre.
C28_Witness ==
    /\ lastCall.op = "findPathSmooth"
    /\ InGrid(StartCell) /\ StartCell = GoalCell
    /\ Walkable(StartCell)
    /\ <<lastCall.args[1], lastCall.args[2]>> # Centre(StartCell)
    /\ Len(result) = 1

(***************************************************************************)
(* C30. markBuildingBlocked changes nothing but the walkable flag of cells *)
(* overlapping the rectangle: no cell's kind changes, and every cell that  *)
(* has no overlap of positive area with [worldX - widthPx/2, worldX +      *)
(* widthPx/2] x [worldY - heightPx/2, worldY + heightPx/2] (a cell the     *)
(* rectangle only touches along its edge included) keeps its walkable      *)
(* value.                                                                  *)
(***************************************************************************)
\* Cell c and the rectangle share a region of positive area (coordinates doubled).
Overlaps(c, worldX, worldY, widthPx, heightPx) ==
    /\ 2 * c[1] * cellSize < 2 * worldX + widthPx
    /\ 2 * worldX - widthPx < 2 * (c[1] + 1) * cellSize
    /\ 2 * c[2] * cellSize < 2 * worldY + heightPx
    /\ 2 * worldY - heightPx < 2 * (c[2] + 1) * cellSize

\* A markBuildingBlocked call leaves every field but walkable as it was.
C30_OnlyWalkableStep ==
    lastCall'.op = "markBuildingBlocked" =>
        \A c \in Cells : Node(grid', c) = [Node(grid, c) EXCEPT !.walkable = Node(grid', c).walkable]

C30_MarkStep ==
    lastCall'.op = "markBuildingBlocked" =>
        /\ C30_OnlyWalkableStep
        /\ \A c \in Cells :
              ~Overlaps(c, lastCall'.args[1], lastCall'.args[2],
                        lastCall'.args[3], lastCall'.args[4])
                  => Node(grid', c).walkable = Node(grid, c).walkable

C30_MarkTouchesOnlyOverlapped == [][C30_MarkStep]_vars

\* The part of C30 that holds: kinds and scratch fields are left alone.
C30_MarkKeepsKinds == [][C30_OnlyWalkableStep]_vars

(***************************************************************************)
(* GameScene.create: the scene makes its Pathfinding, of the size of the   *)
(* saved map of the registry or of the world, and its EconomyManager;      *)
(* createTerrain makes the terrain, of the saved map or generated, and     *)
(* writes the level of every cell to the search grid; the buildings are    *)
(* placed and their cells blocked.  Paths are asked for afterwards.        *)
(***************************************************************************)
\* The world is WORLD_COLS x WORLD_ROWS tiles (60 x 40 in the game).
WORLD_COLS == 7
WORLD_ROWS == 8

\* Math.floor(Math.random() * 100000) gives a seed of 0..MaxSceneSeed.
MaxSceneSeed == 5

SceneSeeds == {Whole(n) : n \in 0..MaxSceneSeed}

\* The textures this.textures.exists finds: none is loaded, or all are.
SceneTextures ==
    {{}, {"building-castle", "building-barracks", "building-archery", "building-tower",
          "building-monastery"}}

BUILDING_DISPLAY ==
    [castle |-> [textureKey |-> "building-castle", width |-> 160, height |-> 128],
     barracks |-> [textureKey |-> "building-barracks", width |-> 96, height |-> 128],
     archery |-> [textureKey |-> "building-archery", width |-> 96, height |-> 128],
     tower |-> [textureKey |-> "building-tower", width |-> 64, height |-> 128],
     monastery |-> [textureKey |-> "building-monastery", width |-> 96, height |-> 128]]

\* updatePathfindingFromTerrain: for every row and col of the map,
\* this.pathfinding.setTerrainLevel(col, row, this.terrain.getLevel(row, col)).
\* Each call writes the node of its own cell and no other, and no two calls have
\* the same cell: after the loops a node of the map is as the call for it made
\* it, and every other node is as it was.
updatePathfindingFromTerrain(pathfinding, map) ==
    [y \in DOMAIN pathfinding |->
        [x \in DOMAIN pathfinding[y] |->
            IF y < map.height /\ x < map.width
            THEN setTerrainLevel(pathfinding, x, y, getLevel(map, y, x))[y][x]
            ELSE pathfinding[y][x]]]

\* findValidSpawnPosition(idealX, idealY, radius): the rings r = 0..radius
\* around the ideal tile are gone through in turn, each by rows (dr) and in a
\* row by columns (dc), and the first tile of the map that is no Water is
\* returned, as the world point of its centre in a sequence; null is the empty
\* sequence.  A tile <<row, col>> is met on the ring of its larger offset.
findValidSpawnPosition(map, idealX, idealY, radius) ==
    LET idealCol == idealX \div TILE_SIZE
        idealRow == idealY \div TILE_SIZE
        Ring(p) == IF Abs(p[1] - idealRow) > Abs(p[2] - idealCol)
                   THEN Abs(p[1] - idealRow) ELSE Abs(p[2] - idealCol)
        valid == {p \in MapCells(map) : Ring(p) <= radius /\ getLevel(map, p[1], p[2]) >= FLAT}
        Sooner(p, q) == \/ Ring(p) < Ring(q)
                        \/ Ring(p) = Ring(q) /\ p[1] < q[1]
                        \/ Ring(p) = Ring(q) /\ p[1] = q[1] /\ p[2] <= q[2]
        first == CHOOSE p \in valid : \A q \in valid : Sooner(p, q)
    IN  IF valid = {} THEN <<>>
        ELSE <<[x |-> first[2] * TILE_SIZE + TILE_SIZE \div 2,
                y |-> first[1] * TILE_SIZE + TILE_SIZE \div 2]>>

\* A building of placeBuildings: it is made, and its cells are to be blocked,
\* when a position was found for it and its texture exists.
placedAt(pos, textureKey, width, height, textures) ==
    IF pos # <<>> /\ textureKey \in textures
    THEN <<[x |-> pos[1].x, y |-> pos[1].y, width |-> width, height |-> height]>>
    ELSE <<>>

\* placeBuildings: the buildings that are made, in order, each with the centre
\* and the size markBuildingBlocked is called with.
placeBuildings(map, textures) ==
    placedAt(findValidSpawnPosition(map, 6 * TILE_SIZE, 6 * TILE_SIZE, 8),
             "building-castle", 160, 128, textures)
    \o placedAt(findValidSpawnPosition(map, 2 * TILE_SIZE, 6 * TILE_SIZE, 8),
                "building-barracks", 96, 128, textures)
    \o placedAt(findValidSpawnPosition(map, 10 * TILE_SIZE, 6 * TILE_SIZE, 8),
                "building-archery", 96, 128, textures)
    \o placedAt(findValidSpawnPosition(map, 14 * TILE_SIZE, 5 * TILE_SIZE, 8),
                "building-tower", 64, 128, textures)

\* spawnEntitiesFromData: the buildings that are made of entities.buildings from
\* the k-th on, those of a type of BUILDING_DISPLAY whose texture exists, each
\* with the centre and the size markBuildingBlocked is called with.
RECURSIVE spawnEntitiesFromData(_, _, _)
spawnEntitiesFromData(entities, textures, k) ==
    IF k > Len(entities.buildings) THEN <<>>
    ELSE LET b == entities.buildings[k]
         IN  (IF b.type \in DOMAIN BUILDING_DISPLAY
              THEN placedAt(<<[x |-> b.col * TILE_SIZE + TILE_SIZE \div 2,
                               y |-> b.row * TILE_SIZE + TILE_SIZE \div 2]>>,
                            BUILDING_DISPLAY[b.type].textureKey,
                            BUILDING_DISPLAY[b.type].width,
                            BUILDING_DISPLAY[b.type].height, textures)
              ELSE <<>>)
             \o spawnEntitiesFromData(entities, textures, k + 1)

\* The markBuildingBlocked calls of the buildings made, from the k-th on.
RECURSIVE markBuildings(_, _, _)
markBuildings(pathfinding, buildings, k) ==
    IF k > Len(buildings) THEN pathfinding
    ELSE markBuildings(markBuildingBlocked(pathfinding, buildings[k].x, buildings[k].y,
                                           buildings[k].width, buildings[k].height),
                       buildings, k + 1)

\* GameScene.create, when Math.floor(Math.random() * 100000) gives `seed`, the
\* first next() of an unseeded generator leaves `first`, Math.random() gives
\* `randoms` to smoothTerrain and the textures of `textures` exist.  The
\* Pathfinding and the EconomyManager are made anew.  createTerrain makes the map
\* of the savedMapData of the registry and removes them from it, or generates
\* the map of the world when there are none, and updatePathfindingFromTerrain
\* writes the level of every cell of the map to the grid.  Then the buildings of
\* the entities of the saved map are made, or those of placeBuildings when it
\* has none, and their cells blocked.  A TypeError of generateTerrain ends the
\* call.  Units are no part of the state.
Create(seed, first, randoms, textures) ==
    \E made \in {IF registry.made
                 THEN [thrown |-> FALSE, map |-> fromData(registry)]
                 ELSE generateTerrain(WORLD_COLS, WORLD_ROWS,
                                      [waterRatio |-> 12, elevatedRegions |-> 4,
                                       createLakes |-> TRUE, createCoast |-> TRUE,
                                       seed |-> seed], first, randoms)} :
       \E buildings \in {IF made.thrown THEN <<>>
                         ELSE IF registry.made
                                 /\ registry.entities.type \notin {"undefined", "null"}
                         THEN spawnEntitiesFromData(registry.entities.val, textures, 1)
                         ELSE placeBuildings(made.map, textures)} :
          /\ gridWidth' = Ceil((IF registry.made THEN registry.width.val ELSE WORLD_COLS)
                               * TILE_SIZE, TILE_SIZE)
          /\ gridHeight' = Ceil((IF registry.made THEN registry.height.val ELSE WORLD_ROWS)
                                * TILE_SIZE, TILE_SIZE)
          /\ gold' = STARTING_GOLD
          /\ terrain' = IF made.thrown THEN terrain ELSE made.map
          /\ registry' = IF registry.made THEN NoData ELSE registry
          /\ grid' = (IF made.thrown THEN initializeGrid
                      ELSE markBuildings(
                               updatePathfindingFromTerrain(initializeGrid, made.map),
                               buildings, 1))'
          /\ blocked' = (UNION {Covered(buildings[k].x, buildings[k].y, buildings[k].width,
                                        buildings[k].height) : k \in 1..Len(buildings)})'
          /\ lastCall' = [op |-> "create", args |-> <<registry, seed>>]
          /\ result' = [thrown |-> made.thrown]
          /\ UNCHANGED <<nOps, nSearches, raw, saved, queue, search>>

\* The calls on a TerrainMap, and the load of a file up to the create of the
\* game scene it starts, which reads neither a seed nor Math.random() when it
\* has a saved map.  The map create makes is private to the scene, which reads
\* it in updatePathfindingFromTerrain and when it places the buildings.
NextTerrain ==
    \/ \E cols \in 1..MaxMapSize, rows \in 1..MaxMapSize : TmConstruct(cols, rows)
    \/ \E data \in LoadInputs : TmFromData(data)
    \/ \E parsed \in (IF lastCall.op = "new" THEN SavedMaps ELSE LaterFiles) :
          TmLoadMap(parsed)
    \/ /\ registry.made
       /\ \E textures \in SceneTextures : Create(Whole(0), 0, <<0, 0>>, textures)
    \/ /\ lastCall.op # "create"
       /\ \E place \in Places, level \in TerrainLevel, variation \in Variations :
             TmSet(place, level, variation)
    \/ /\ lastCall.op # "create"
       /\ \E place \in Places : TmGet(place)
    \/ /\ lastCall.op # "create"
       /\ \E place \in Places : TmGetLevel(place)
    \/ /\ lastCall.op # "create"
       /\ TmToData

SpecTerrain == Init /\ [][NextTerrain]_vars

\* World points of the queries of a scene: those of QueryPoints, and the centres
\* of the four tiles around the middle of the world.
ScenePoints ==
    QueryPoints
    \cup {Centre(<<x, y>>) : x \in (WORLD_COLS \div 2 - 1)..(WORLD_COLS \div 2),
                             y \in (WORLD_ROWS \div 2 - 1)..(WORLD_ROWS \div 2)}

\* The scene of a generated world is created, and a path is asked for on its
\* Pathfinding.
NextSync ==
    \/ /\ lastCall.op = "new"
       /\ \E seed \in SceneSeeds :
             \E first \in FirstChoices([seed |-> seed]), randoms \in MathRandoms,
                textures \in SceneTextures :
                Create(seed, first, randoms, textures)
    \/ /\ lastCall.op = "create" /\ ~result.thrown
       /\ \E from \in ScenePoints, to \in ScenePoints : FindPath(from, to)
    \/ /\ lastCall.op = "create" /\ ~result.thrown
       /\ \E from \in ScenePoints, to \in ScenePoints : FindPathSmooth(from, to)

SpecSync == Init /\ [][NextSync]_vars

(***************************************************************************)
(* C29. Every cell of every map returned by generateTerrain has a kind in  *)
(* {Water, Flat, Elevated1, Elevated2} and never Ramp; consequently, on a  *)
(* search grid synced cell by cell from a generated terrain with           *)
(* setTerrainLevel, findPath between a Flat cell and an Elevated1 or       *)
(* Elevated2 cell, in either direction, always returns empty.              *)
(***************************************************************************)
GeneratedKinds == {WATER, FLAT, ELEVATED_1, ELEVATED_2}

\* The search grid carries the kinds of the terrain, and its water and the cells
\* under the buildings are unwalkable.
Synced ==
    \A c \in Cells : /\ Kind(c) = getLevel(terrain, c[2], c[1])
                     /\ Walkable(c) = (Kind(c) # WATER /\ c \notin blocked)

AcrossTiers(c, d) ==
    \/ Kind(c) = FLAT /\ isElevated(Kind(d))
    \/ isElevated(Kind(c)) /\ Kind(d) = FLAT

C29_NoRampNoClimb ==
    /\ terrain.made =>
          \A p \in MapCells(terrain) : getLevel(terrain, p[1], p[2]) \in GeneratedKinds
    /\ ((lastCall.op = "create" /\ ~result.thrown) \/ Searched) => Synced
    /\ (Searched /\ InGrid(StartCell) /\ InGrid(GoalCell) /\ AcrossTiers(StartCell, GoalCell))
          => raw = <<>> /\ result = <<>>

\* The same of the maps of SpecGen, generated with lakes and coasts.
C29_NoRampGenerated ==
    (Generated /\ ~result.thrown) =>
        \A p \in MapCells(terrain) : getLevel(terrain, p[1], p[2]) \in GeneratedKinds

\* On the grid of a scene created with a generated terrain a path has been
\* asked for from a Flat cell to an elevated cell next to it, both walkable,
\* and none was returned.
C29_Witness ==
    /\ Searched /\ Synced
    /\ InGrid(StartCell) /\ InGrid(GoalCell)
    /\ Walkable(StartCell) /\ Walkable(GoalCell)
    /\ Kind(StartCell) = FLAT /\ isElevated(Kind(GoalCell))
    /\ Adjacent(StartCell, GoalCell)
    /\ raw = <<>>

====
